---- MODULE Spec2Model ----
(***************************************************************************)
(* State-machine model of the TjQuizElement custom element                 *)
(* (src/tj-quiz-element.js, first class, lines 3-1741): the session        *)
(* engine (answer tracking, completeness gate, scoring) and the            *)
(* submission coordinator (sendScore and its asynchronous continuation).   *)
(*                                                                         *)
(* Strings that the code trims or changes the case of are sequences of     *)
(* one-character strings, so that trim(), toLowerCase() and toUpperCase()  *)
(* are computed and not assumed.  DOM elements are modelled by the         *)
(* properties the code reads or writes (disabled, value, the "hidden"      *)
(* class, textContent, className).  A control that is disabled or hidden   *)
(* delivers no user event: that is the browser's part of the guard of the  *)
(* corresponding handler.                                                  *)
(***************************************************************************)
EXTENDS Integers, Sequences, FiniteSets, TLC

\* ------------------------------------------------------------- bounds
\* size of the largest parsed question bank
MaxBank == 2
\* number of words of the largest vocabulary section
MaxVocabWords == 1
\* number of marked words of the largest cloze section
MaxClozeWords == 1
\* number of outbound requests recorded in one behaviour
MaxRequests == 2
\* number of blocks after the title of the longest document given to the
\* parser alone
MaxChunks == 3

\* number of words of the largest vocabulary given to generateVocabMatching
MaxMatchingWords == 5

\* length of the longest array given to shuffleArray alone
MaxArray == 3

\* number of lines of the longest body given to a section parser alone
MaxLines == 3

\* ------------------------------------------------------------ strings
\* String.prototype.toLowerCase, on one character
LowerChar(c) ==
    CASE c = "A" -> "a" [] c = "B" -> "b" [] c = "Q" -> "q" [] c = "Z" -> "z"
      [] OTHER -> c

\* String.prototype.toUpperCase, on one character
UpperChar(c) ==
    CASE c = "a" -> "A" [] c = "b" -> "B" [] c = "q" -> "Q" [] c = "z" -> "Z"
      [] OTHER -> c

ToLowerCase(s) == [i \in 1..Len(s) |-> LowerChar(s[i])]

ToUpperCase(s) == [i \in 1..Len(s) |-> UpperChar(s[i])]

\* the white space trim() removes: the space and the line break
IsSpace(c) == c \in {" ", "\n"}

RECURSIVE TrimStart(_)
TrimStart(s) ==
    IF s # <<>> /\ IsSpace(Head(s)) THEN TrimStart(Tail(s)) ELSE s

RECURSIVE TrimEnd(_)
TrimEnd(s) ==
    IF s # <<>> /\ IsSpace(s[Len(s)]) THEN TrimEnd(SubSeq(s, 1, Len(s) - 1)) ELSE s

\* String.prototype.trim
Trim(s) == TrimEnd(TrimStart(s))

\* The bodies of the blocks the parsers read are sequences of tokens: the
\* separators the parsers look for (line break, comma, colon, space, the
\* line prefixes Q: Q. A: E:, the marker [correct]) and words that hold
\* none of them.
\* String.prototype.indexOf: the first position of a token, 0 for none
IndexOf(s, c) ==
    IF \E i \in 1..Len(s) : s[i] = c
    THEN CHOOSE i \in 1..Len(s) : s[i] = c /\ \A j \in 1..(i - 1) : s[j] # c
    ELSE 0

\* String.prototype.includes
Includes(s, c) == IndexOf(s, c) # 0

RECURSIVE Split(_, _)
\* String.prototype.split
Split(s, sep) ==
    IF ~Includes(s, sep) THEN <<s>>
    ELSE <<SubSeq(s, 1, IndexOf(s, sep) - 1)>>
             \o Split(SubSeq(s, IndexOf(s, sep) + 1, Len(s)), sep)

\* String.prototype.replace(c, ''): the first occurrence of c is removed
RemoveFirst(s, c) ==
    IF ~Includes(s, c) THEN s
    ELSE SubSeq(s, 1, IndexOf(s, c) - 1) \o SubSeq(s, IndexOf(s, c) + 1, Len(s))

\* .map(l => l.trim()).filter(l => l.length > 0)
TrimmedNonEmpty(parts) ==
    LET nonEmpty(part) == part # <<>>
    IN  SelectSeq([i \in 1..Len(parts) |-> Trim(parts[i])], nonEmpty)

\* the elements of an array
Range(seq) == {seq[i] : i \in 1..Len(seq)}

\* String.fromCharCode(65 + i): the letter of the i-th word, i counted from 0
LetterOf(i) == << <<"A", "B", "C", "D">>[i + 1] >>

\* ------------------------------------------------------------ shuffle
Swap(array, i, j) ==
    [array EXCEPT ![i] = array[j], ![j] = array[i]]

\* the draws of a shuffle that never leaves an element in its place
RandomDraws_ExcludesSelf(n) ==
    {rand \in [2..n -> 1..n] : \A i \in 2..n : rand[i] < i}

\* the draws of one shuffle of n elements: rand[i] is the index drawn for
\* position i (Math.floor(Math.random() * (i + 1)), here counted from 1)
RandomDraws(n) ==
    {rand \in [2..n -> 1..n] : \A i \in 2..n : rand[i] <= i}

RECURSIVE ShuffleFrom(_, _, _)
ShuffleFrom(array, i, rand) ==
    IF i <= 1 THEN array
    ELSE ShuffleFrom(Swap(array, i, rand[i]), i - 1, rand)

ShuffleArray(array, rand) == ShuffleFrom(array, Len(array), rand)

\* the arrays given to shuffleArray alone: up to MaxArray elements, equal
\* elements included
ShuffleArrays ==
    UNION {[1..n -> {"a", "b", "c"}] : n \in 0..MaxArray}

\* Array.prototype.slice(0, n)
SliceTo(array, n) ==
    SubSeq(array, 1, IF n < Len(array) THEN n ELSE Len(array))

\* ----------------------------------------------------- section parsers
\* a question as parseQuestions starts it at a Q line
NewQuestion(text) == [q |-> text, o |-> <<>>, a |-> <<>>, e |-> <<>>]

\* parseQuestions whose Q line drops the question before it
ParseQuestionLine_NoFlush(st, line) ==
    LET rest == Trim(Tail(line))
        isCorrect == Includes(rest, "[correct]")
        cleanAnswer == Trim(RemoveFirst(rest, "[correct]"))
    IN  IF Head(line) \in {"Q:", "Q."}
        THEN [bank |-> st.bank, current |-> <<NewQuestion(rest)>>]
        ELSE IF Head(line) = "A:" /\ st.current # <<>>
        THEN [st EXCEPT !.current[1].o = Append(@, cleanAnswer),
                        !.current[1].a = IF isCorrect THEN cleanAnswer ELSE @]
        ELSE IF Head(line) = "E:" /\ st.current # <<>>
        THEN [st EXCEPT !.current[1].e = rest]
        ELSE st

\* parseQuestions, one turn of its loop on a trimmed, non-empty line; st
\* holds tempQuestionBank and currentQuestion (<<>> for null, else
\* <<question>>); line.substring(2) is the line without its prefix token
ParseQuestionLine(st, line) ==
    LET rest == Trim(Tail(line))
        isCorrect == Includes(rest, "[correct]")
        cleanAnswer == Trim(RemoveFirst(rest, "[correct]"))
    IN  IF Head(line) \in {"Q:", "Q."}
        THEN [bank |-> st.bank \o st.current, current |-> <<NewQuestion(rest)>>]
        ELSE IF Head(line) = "A:" /\ st.current # <<>>
        THEN [st EXCEPT !.current[1].o = Append(@, cleanAnswer),
                        !.current[1].a = IF isCorrect THEN cleanAnswer ELSE @]
        ELSE IF Head(line) = "E:" /\ st.current # <<>>
        THEN [st EXCEPT !.current[1].e = rest]
        ELSE st

RECURSIVE ParseQuestionLines(_, _)
ParseQuestionLines(st, lines) ==
    IF lines = <<>> THEN st
    ELSE ParseQuestionLines(ParseQuestionLine(st, Head(lines)), Tail(lines))

\* parseQuestions: the bank parsed from the body of a questions block
ParseQuestions(questionsSection) ==
    LET lines == TrimmedNonEmpty(Split(questionsSection, "\n"))
        st == ParseQuestionLines([bank |-> <<>>, current |-> <<>>], lines)
    IN  IF questionsSection = <<>> THEN <<>> ELSE st.bank \o st.current

\* m[word] = definition on the object m, kept as the sequence of its
\* entries in insertion order
PutEntry(m, word, definition) ==
    IF \E i \in 1..Len(m) : m[i].word = word
    THEN [i \in 1..Len(m) |->
             IF m[i].word = word THEN [word |-> word, definition |-> definition]
             ELSE m[i]]
    ELSE Append(m, [word |-> word, definition |-> definition])

\* .replace(/,$/, '')
StripTrailingComma(s) ==
    IF s # <<>> /\ s[Len(s)] = "," THEN SubSeq(s, 1, Len(s) - 1) ELSE s

RECURSIVE ParsePairsInto(_, _)
\* parsePairsToMap, its forEach from the map m on
ParsePairsInto(m, pairs) ==
    IF pairs = <<>> THEN m
    ELSE LET pair == Head(pairs)
             idx == IndexOf(pair, ":")
             word == Trim(SubSeq(pair, 1, idx - 1))
             definition == StripTrailingComma(Trim(SubSeq(pair, idx + 1, Len(pair))))
         IN  ParsePairsInto(IF idx # 0 /\ word # <<>> /\ definition # <<>>
                            THEN PutEntry(m, word, definition) ELSE m,
                            Tail(pairs))

ParsePairsToMap(pairs) == ParsePairsInto(<<>>, pairs)

\* parseVocabulary reading one pair per line only
AllVocab_LinesOnly(vocabSection) ==
    LET lines == TrimmedNonEmpty(Split(vocabSection, "\n"))
        candidatePairs == IF Len(lines) > 0 THEN lines ELSE <<Trim(vocabSection)>>
    IN  ParsePairsToMap(candidatePairs)

\* parseVocabulary, up to allVocab: the pairs of the body of a block
AllVocab(vocabSection) ==
    LET lines == TrimmedNonEmpty(Split(vocabSection, "\n"))
        candidatePairs == IF Len(lines) > 0 THEN lines ELSE <<Trim(vocabSection)>>
        byLine == ParsePairsToMap(candidatePairs)
        commaPairs == TrimmedNonEmpty(Split(vocabSection, ","))
    IN  IF Len(byLine) <= 1 /\ Includes(vocabSection, ",")
        THEN ParsePairsToMap(commaPairs)
        ELSE byLine

\* ---------------------------------------------------------- documents
\* A document is the sequence of the blocks that follow its title (the
\* pieces between the --- lines).  A block is its header line, in lower
\* case and split at its first "-" into a name and a suffix of characters,
\* its body as a sequence of tokens (for a cloze block: the words its text
\* marks with asterisks), and whether the body is the empty string.
Digits == <<"0", "1", "2", "3", "4", "5", "6", "7", "8", "9">>

\* the decimal writing of a number below 10
DigitOf(n) == <<Digits[n + 1]>>

Block(name, suffix, body, marked, blank) ==
    [header |-> [name |-> name, suffix |-> suffix], blank |-> blank,
     body |-> body, marked |-> marked]

\* the lines of the i-th question: its first option is the marked one when
\* i is odd, its second when i is even
QuestionLines(i) ==
    <<"Q:", " ">> \o DigitOf(i) \o
    (IF i % 2 = 1
     THEN <<"\n", "A:", " ", "yes", " ", "[correct]", "\n", "A:", " ", "no">>
     ELSE <<"\n", "A:", " ", "yes", "\n", "A:", " ", "no", " ", "[correct]">>)

\* a question as parseQuestions builds it: prompt q, options o, correct
\* option a, explanation e
QuestionOf(i) == ParseQuestions(QuestionLines(i))[1]

RECURSIVE BankBody(_)
\* the body of a questions block holding the first n questions
BankBody(n) ==
    IF n = 0 THEN <<>>
    ELSE IF n = 1 THEN QuestionLines(1)
    ELSE BankBody(n - 1) \o <<"\n">> \o QuestionLines(n)

\* the body of a questions block whose one question marks no option and
\* has an option left empty
UnmarkedBody == <<"Q:", " ", "u", "\n", "A:", "\n", "A:", " ", "no">>

\* the bodies of the questions blocks of the session model: the first n
\* questions, n up to MaxBank, and the unmarked question
QuestionBodies == {BankBody(n) : n \in 0..MaxBank} \cup {UnmarkedBody}

\* the parsed banks
Banks == {ParseQuestions(body) : body \in QuestionBodies}

\* the -N suffix of the header of a bank: <<>> for none (null), <<n>> for
\* N = n, n up to the size of the bank
Capacities(bank) == {<<>>} \cup {<<n>> : n \in 0..Len(bank)}

\* the i-th "word: definition" line
VocabLine(i) ==
    <<(<<"dog", "cod", "eel">>)[i], ":", " ",
      (<<"an animal", "a fish", "long">>)[i]>>

VocabEntryOf(i) == AllVocab(VocabLine(i))[1]

RECURSIVE VocabBody(_)
\* the body of a vocabulary block of n pairs, one per line; without a
\* pair it is a line that holds no colon
VocabBody(n) ==
    IF n = 0 THEN <<"none">>
    ELSE IF n = 1 THEN VocabLine(1)
    ELSE VocabBody(n - 1) \o <<"\n">> \o VocabLine(n)

ClozeWordOf(i) == << <<"Q">>, <<"z">>, <<"b">> >>[i]

\* a vocabulary block of n pairs
VocabBlock(n, suffix) == Block("vocab", suffix, VocabBody(n), <<>>, FALSE)

\* a cloze block whose text marks n words
ClozeBlock(n, suffix) ==
    Block("cloze", suffix, <<>>, [i \in 1..n |-> ClozeWordOf(i)], FALSE)

\* a questions block of a body, its header with the suffix of cap
QuestionsBlock(body, cap) ==
    Block("questions", IF cap = <<>> THEN <<>> ELSE DigitOf(cap[1]),
          body, <<>>, body = <<>>)

\* the vocabulary part of a document of the session model: no block, a
\* block of up to MaxVocabWords pairs, or a block of one pair more whose
\* header limits it to MaxVocabWords
VocabParts ==
    {<<>>} \cup {<<VocabBlock(n, <<>>)>> : n \in 0..MaxVocabWords}
           \cup {<<VocabBlock(MaxVocabWords + 1, DigitOf(MaxVocabWords))>>}

\* the cloze part: no block, a block marking up to MaxClozeWords words, or
\* a block marking one word more whose header limits it to MaxClozeWords
ClozeParts ==
    {<<>>} \cup {<<ClozeBlock(n, <<>>)>> : n \in 0..MaxClozeWords}
           \cup {<<ClozeBlock(MaxClozeWords + 1, DigitOf(MaxClozeWords))>>}

\* the questions part: one block for each body and capacity
QuestionsParts ==
    UNION {{<<QuestionsBlock(body, cap)>> : cap \in Capacities(ParseQuestions(body))} :
              body \in QuestionBodies}

\* the documents of the session model
Documents ==
    {v \o c \o q : v \in VocabParts, c \in ClozeParts, q \in QuestionsParts}

\* the blocks of the documents given to the parser alone
ParserBlocks ==
    {Block(name, <<>>, <<>>, <<>>, FALSE) : name \in {"text", "instructions", "audio", "notes"}}
        \cup {VocabBlock(2, suffix) : suffix \in {<<>>, <<"0">>, <<"1">>, <<"x">>}}
        \cup {ClozeBlock(2, suffix) : suffix \in {<<"0">>, <<"1">>}}
        \cup {QuestionsBlock(BankBody(1), cap) : cap \in {<<>>, <<0>>}}

RECURSIVE JoinLines(_)
\* lines joined by line breaks
JoinLines(lines) ==
    IF lines = <<>> THEN <<>>
    ELSE IF Len(lines) = 1 THEN lines[1]
    ELSE lines[1] \o <<"\n">> \o JoinLines(Tail(lines))

\* the bodies of up to MaxLines lines drawn from a set of lines
Bodies(lines) ==
    UNION {{JoinLines(ls) : ls \in [1..n -> lines]} : n \in 0..MaxLines}

\* the lines of the bodies given to the questions parser alone
QuestionsParserLines ==
    {<<"Q:", " ", "1">>, <<" ", "Q.", "2">>, <<"A:", " ", "yes">>,
     <<"A:", " ", "no", " ", "[correct]">>, <<"A:", "[correct]", " ", "yes">>,
     <<"A:">>, <<"E:", " ", "why">>, <<"note">>}

\* the documents given to the questions parser alone: one questions
\* block, its header with or without a capacity
QuestionsDocuments ==
    {<<QuestionsBlock(body, cap)>> :
        body \in Bodies(QuestionsParserLines), cap \in {<<>>, <<1>>}}

\* the lines of the bodies given to the vocabulary parser alone
VocabularyParserLines ==
    {<<"dog", ":", " ", "an animal">>, <<"cod", ":", "a fish", ",">>,
     <<" ", "dog", " ", ":", "big">>, <<"note">>, <<":", "x">>, <<"eel", ":", " ">>,
     <<"eel", ":", ",">>, <<"dog", ":", "big", ",", " ", "cod", ":", "a fish">>}

\* the documents given to the vocabulary parser alone: one vocab block
VocabularyDocuments ==
    {<<Block("vocab", <<>>, body, <<>>, body = <<>>)>> :
        body \in Bodies(VocabularyParserLines)}

\* a "word: definition" line of the vocabularies given to
\* generateVocabMatching; when paired, two consecutive words share their
\* definition
MatchingLine(i, paired) ==
    <<(<<"ant", "bee", "cat", "dog", "eel", "fox", "gnu">>)[i], ":", " ",
      (<<"d1", "d2", "d3", "d4", "d5", "d6", "d7">>)[IF paired THEN (i + 1) \div 2 ELSE i]>>

\* the documents given to generateVocabMatching: one vocab block of up to
\* MaxMatchingWords words
MatchingDocuments ==
    {<<Block("vocab", <<>>, JoinLines([i \in 1..n |-> MatchingLine(i, paired)]),
             <<>>, FALSE)>> :
        n \in 1..MaxMatchingWords, paired \in BOOLEAN}

\* a cloze block whose text marks the same word twice, without a limit and
\* with a limit of one blank
RepeatClozeBlocks ==
    {Block("cloze", suffix, <<>>, <<ClozeWordOf(1), ClozeWordOf(1)>>, FALSE) :
        suffix \in {<<>>, <<"1">>}}

\* the documents of the sessions on a repeated cloze word: one vocabulary
\* pair, a cloze block marking a word twice, and one question
RepeatDocuments ==
    {<<VocabBlock(1, <<>>), c, QuestionsBlock(BankBody(1), <<>>)>> :
        c \in RepeatClozeBlocks}

\* the blocks of the documents whose sections are rendered in order: vocab
\* and cloze blocks of different contents, with or without a limit, vocab
\* and cloze blocks of an empty body, and a text block
RenderBlocks ==
    {Block("vocab", <<>>, <<>>, <<>>, TRUE), Block("cloze", <<>>, <<>>, <<>>, TRUE),
     VocabBlock(1, <<>>), VocabBlock(2, <<>>), VocabBlock(2, <<"1">>),
     ClozeBlock(1, <<>>), ClozeBlock(2, <<>>), ClozeBlock(2, <<"1">>),
     Block("text", <<>>, <<>>, <<>>, FALSE)}

\* the documents whose sections are rendered in order: up to MaxChunks blocks
RenderDocuments ==
    UNION {[1..n -> RenderBlocks] : n \in 1..MaxChunks}

\* the documents given to the parser alone: up to MaxChunks blocks
ParserDocuments ==
    UNION {[1..n -> ParserBlocks] : n \in 0..MaxChunks}

\* config.submissionUrl / the submission-url attribute: unset or set
SubmissionUrls == {"", "https://example.test/exec"}

\* the values the page gives to the submission-url attribute
AttributeUrls == {"https://a.test/exec", "https://b.test/exec"}

\* ------------------------------------------------------- user inputs
\* what the user can type into a student information field
StudentTexts == {<<>>, <<" ">>, <<"n">>}
\* what the user can type into a vocabulary matching input (maxLength 1)
VocabTexts == {<<>>, <<" ">>, <<"a">>, <<"B">>}
\* what the user can type into a cloze blank
ClozeTexts == {<<>>, <<" ">>, <<" ", "Q", " ">>, <<"x">>}

\* what the transport can answer to one request
Responses ==
    {[kind |-> "reject", ok |-> FALSE, json |-> FALSE, body |-> "none"]} \cup
    [kind : {"response"}, ok : BOOLEAN, json : BOOLEAN,
     body : {"message", "object", "null", "malformed"}]

\* no response was delivered yet
NoResponse == [kind |-> "none", ok |-> FALSE, json |-> FALSE, body |-> "none"]

VARIABLES
    shuffleInput,           \* the array given to shuffleArray
    shuffled,               \* that array as shuffleArray leaves it
    vocabChoices,           \* generateVocabMatching: the choices of a word row
    rendered,               \* generateQuiz: what each ordered section is rendered with
    submissionAttribute,    \* the submission-url attribute: <<>> absent, <<value>>
    connected,              \* connectedCallback has run
    textContent,            \* the document: the blocks after the title
    sectionIndex,           \* parseContent: the block its loop is at
    lastSectionType,        \* parseContent: type of the block before
    lastTextSectionId,      \* parseContent: id of the last text block
    passages,
    questionGroups,
    orderedSections,
    questions,              \* sec.questions of the questions section
    maxQuestions,           \* sec.maxQuestions of the questions section
    vocabularySections,
    clozeSections,
    submissionUrl,
    currentQuestions,
    totalQuestions,
    questionsAnswered,
    userQuestionAnswers,
    score,
    vocabUserChoices,
    vocabScore,
    vocabSubmitted,
    clozeAnswers,
    clozeScore,
    clozeSubmitted,
    quizUnlocked,
    autoSubmissionInProgress,
    scoreSubmitted,
    \* the shadow DOM
    radios,                 \* per question: checked value, disabled
    vocabInputs,            \* per "sectionId-word": value, disabled, correctLetter
    clozeInputs,            \* per "sectionId-blankIndex": value, disabled, answer
    studentInputs,          \* nickname, homeroom, studentId values
    checkScoreDisabled,     \* checkScoreButton.disabled
    hidden,                 \* the elements carrying the class "hidden"
    sendButton,             \* disabled, textContent
    tryAgainDisabled,       \* tryAgainButton.disabled
    validationMessage,      \* text, className
    \* the transport
    requests,               \* the requests issued for the current try, in order
    inFlight,               \* the requests awaiting their response, in order
    lastResponse            \* the response delivered last for the current try

callVars == <<shuffleInput, shuffled, vocabChoices, rendered, submissionAttribute>>
parseVars == <<textContent, sectionIndex, lastSectionType, lastTextSectionId,
               passages, questionGroups, orderedSections>>
docVars == <<parseVars, questions, maxQuestions, vocabularySections,
             clozeSections, submissionUrl, callVars>>
questionVars == <<currentQuestions, totalQuestions, questionsAnswered,
                  userQuestionAnswers, score>>
vocabVars == <<vocabUserChoices, vocabScore, vocabSubmitted>>
clozeVars == <<clozeAnswers, clozeScore, clozeSubmitted>>
submitVars == <<autoSubmissionInProgress, scoreSubmitted>>
inputVars == <<radios, vocabInputs, clozeInputs>>
controlVars == <<checkScoreDisabled, hidden, sendButton, tryAgainDisabled,
                 validationMessage>>
netVars == <<requests, inFlight, lastResponse>>

vars == <<connected, docVars, questionVars, vocabVars, clozeVars, quizUnlocked,
          submitVars, inputVars, studentInputs, controlVars,
          netVars>>

\* ----------------------------------------------------------- helpers
\* a JavaScript object used as a map: a function whose DOMAIN is its keys
EmptyMap == <<>>

\* obj[key] = value that keeps the value of a key already present
Put_KeepsFirst(map, key, value) ==
    [k \in DOMAIN map \cup {key} |-> IF k \in DOMAIN map THEN map[k] ELSE value]

\* obj[key] = value
Put(map, key, value) ==
    [k \in DOMAIN map \cup {key} |-> IF k = key THEN value ELSE map[k]]

\* delete obj[key]
Delete(map, key) ==
    [k \in DOMAIN map \ {key} |-> map[k]]

RECURSIVE GetTotalVocabWords(_)
\* getTotalVocabWords: the number of words over all vocabulary sections
GetTotalVocabWords(vs) ==
    IF vs = <<>> THEN 0
    ELSE Len(Head(vs).vocabulary) + GetTotalVocabWords(Tail(vs))

RECURSIVE TotalBlanks(_)
\* clozeSections.reduce((total, section) => total + section.words.length, 0)
TotalBlanks(cs) ==
    IF cs = <<>> THEN 0 ELSE Len(Head(cs).words) + TotalBlanks(Tail(cs))

\* -------------------------------------------- the template (not in src)
\* The state of the controls of template.html before any handler ran:
\* the state resetQuiz restores.
Template ==
    [hidden |-> {"resultArea", "postScoreActions", "sendButton"},
     sendButton |-> [disabled |-> FALSE, textContent |-> "Resend Score to Teacher"],
     tryAgainDisabled |-> FALSE,
     checkScoreDisabled |-> FALSE,
     validationMessage |-> [text |-> "", className |-> ""],
     studentInputs |-> [nickname |-> <<>>, homeroom |-> <<>>, studentId |-> <<>>]]

\* ---------------------------------------------------------- rendering
\* generateQuiz taking the first questions of the bank, without a shuffle
QuestionsForSection_NoShuffle(qs, cap, rand) ==
    LET maxForSection == IF cap # <<>> /\ cap[1] # 0 THEN cap ELSE <<>>
    IN  IF maxForSection # <<>> /\ Len(qs) > maxForSection[1]
        THEN SliceTo(qs, maxForSection[1])
        ELSE qs

\* generateQuiz, the questions branch: the questions of one section for
\* this try
QuestionsForSection(qs, cap, rand) ==
    LET maxForSection == IF cap # <<>> /\ cap[1] # 0 THEN cap ELSE <<>>
    IN  IF maxForSection # <<>> /\ Len(qs) > maxForSection[1]
        THEN SliceTo(ShuffleArray(qs, rand), maxForSection[1])
        ELSE qs

\* renderVocabInline: one input per word, carrying the word's letter
RenderVocabInputs(vs) ==
    LET keys == UNION {{<<vs[k].sectionId, vs[k].vocabulary[i].word>> :
                           i \in 1..Len(vs[k].vocabulary)} : k \in 1..Len(vs)}
        indexOf(key) == CHOOSE i \in 1..Len(vs[key[1] + 1].vocabulary) :
                           vs[key[1] + 1].vocabulary[i].word = key[2]
    IN  [key \in keys |->
            [value |-> <<>>, disabled |-> FALSE,
             correctLetter |-> LetterOf(indexOf(key) - 1)]]

RECURSIVE ClozeBlanks(_, _)
\* renderClozeInline: for each selected word, every remaining marked
\* occurrence of it (ignoring case) becomes an input whose data-answer is
\* the word in lower case; blankIndex counts the inputs in that order
ClozeBlanks(text, words) ==
    IF words = <<>> THEN <<>>
    ELSE LET w == ToLowerCase(Head(words))
             isMatch(t) == ToLowerCase(t) = w
             isOther(t) == ToLowerCase(t) # w
             matches == SelectSeq(text, isMatch)
         IN  [i \in 1..Len(matches) |-> w]
                 \o ClozeBlanks(SelectSeq(text, isOther), Tail(words))

\* renderClozeInline making a blank of every marked word of the text
RenderClozeInputs_AllMarked(cs) ==
    LET blanks(k) == ClozeBlanks(cs[k].text, cs[k].text)
        keys == UNION {{<<cs[k].sectionId, b - 1>> : b \in 1..Len(blanks(k))} :
                          k \in 1..Len(cs)}
    IN  [key \in keys |->
            [value |-> <<>>, disabled |-> FALSE,
             answer |-> blanks(key[1] + 1)[key[2] + 1]]]

RenderClozeInputs(cs) ==
    LET blanks(k) == ClozeBlanks(cs[k].text, cs[k].words)
        keys == UNION {{<<cs[k].sectionId, b - 1>> : b \in 1..Len(blanks(k))} :
                          k \in 1..Len(cs)}
    IN  [key \in keys |->
            [value |-> <<>>, disabled |-> FALSE,
             answer |-> blanks(key[1] + 1)[key[2] + 1]]]

\* the draws of the shuffles of the options, one shuffle per question
OptionDraws(qs) ==
    {orands \in [1..Len(qs) -> UNION {RandomDraws(Len(qs[i].o)) : i \in 1..Len(qs)}] :
        \A i \in 1..Len(qs) : orands[i] \in RandomDraws(Len(qs[i].o))}

\* generateQuiz and createQuestionBlock shuffling sec.questions and q.o
\* themselves
SectionQuestionsAfter_InPlace(qs, cap, rand, orands) ==
    LET reordered == IF cap # <<>> /\ cap[1] # 0 /\ Len(qs) > cap[1]
                     THEN ShuffleArray(qs, rand) ELSE qs
    IN  [i \in 1..Len(qs) |->
            [reordered[i] EXCEPT !.o = ShuffleArray(@, orands[i])]]

\* sec.questions after generateQuiz: the selection shuffles the copy
\* [...sec.questions] and createQuestionBlock the copy [...q.o], so the
\* array and its questions are as before
SectionQuestionsAfter(qs, cap, rand, orands) == qs

\* generateQuiz keeping the recorded question answers
GenerateQuiz_KeepsAnswers(qs, cap, vs, cs, rand, orands) ==
    LET chosen == IF Len(qs) > 0 THEN QuestionsForSection(qs, cap, rand)
                  ELSE <<>>
    IN  /\ score' = 0
        /\ UNCHANGED <<questionsAnswered, userQuestionAnswers>>
        /\ checkScoreDisabled' = TRUE
        /\ questions' = SectionQuestionsAfter(qs, cap, rand, orands)
        /\ currentQuestions' = chosen
        /\ totalQuestions' = Len(chosen)
        /\ radios' = [i \in 1..Len(chosen) |-> [checked |-> <<>>, disabled |-> FALSE]]
        /\ vocabInputs' = RenderVocabInputs(vs)
        /\ clozeInputs' = RenderClozeInputs(cs)

\* generateQuiz, for the parsed document (qs, cap, vs, cs) and the draws
\* rand of this try's shuffle
GenerateQuiz(qs, cap, vs, cs, rand, orands) ==
    LET chosen == IF Len(qs) > 0 THEN QuestionsForSection(qs, cap, rand)
                  ELSE <<>>
    IN  /\ score' = 0
        /\ questionsAnswered' = 0
        /\ userQuestionAnswers' = EmptyMap
        /\ checkScoreDisabled' = TRUE
        /\ questions' = SectionQuestionsAfter(qs, cap, rand, orands)
        /\ currentQuestions' = chosen
        /\ totalQuestions' = Len(chosen)
        /\ radios' = [i \in 1..Len(chosen) |-> [checked |-> <<>>, disabled |-> FALSE]]
        /\ vocabInputs' = RenderVocabInputs(vs)
        /\ clozeInputs' = RenderClozeInputs(cs)

\* ------------------------------------------------------------ parsing
IsDigit(c) == \E i \in 1..Len(Digits) : Digits[i] = c

DigitValue(c) == (CHOOSE i \in 1..Len(Digits) : Digits[i] = c) - 1

RECURSIVE LeadingDigits(_)
\* the group (\d+) of the header patterns: the digits that follow the "-"
LeadingDigits(s) ==
    IF s # <<>> /\ IsDigit(Head(s)) THEN <<Head(s)>> \o LeadingDigits(Tail(s))
    ELSE <<>>

RECURSIVE ParseInt(_)
\* parseInt of a string of digits
ParseInt(digits) ==
    IF digits = <<>> THEN 0
    ELSE ParseInt(SubSeq(digits, 1, Len(digits) - 1)) * 10
             + DigitValue(digits[Len(digits)])

\* match && match[1] ? parseInt(match[1]) : null, with <<>> for null
HeaderCount(header) ==
    LET digits == LeadingDigits(header.suffix)
    IN  IF digits # <<>> THEN <<ParseInt(digits)>> ELSE <<>>

\* the branch of the loop of parseContent a header takes
SectionType(header) ==
    IF header.name \in {"vocab", "cloze", "instructions", "questions"}
    THEN header.name
    ELSE IF header.name \in {"text", "text-listening"} /\ header.suffix = <<>>
    THEN "text"
    ELSE IF header.name = "audio" /\ header.suffix = <<>> THEN "audio"
    ELSE "null"

\* parseVocabulary: vocabularySections after it
ParseVocabulary(sections, block, maxWords, rand) ==
    LET allVocab == AllVocab(block.body)
        finalVocab == IF maxWords # <<>> /\ maxWords[1] # 0
                            /\ Len(allVocab) > maxWords[1]
                      THEN SliceTo(ShuffleArray(allVocab, rand), maxWords[1])
                      ELSE allVocab
    IN  IF block.blank THEN sections
        ELSE Append(sections, [vocabulary |-> finalVocab, sectionId |-> Len(sections)])

\* parseCloze: clozeSections after it
ParseCloze(sections, block, maxBlanks, rand) ==
    LET marked == block.marked
        clozeWords == IF maxBlanks # <<>> /\ maxBlanks[1] # 0
                            /\ Len(marked) > maxBlanks[1]
                      THEN SliceTo(ShuffleArray(marked, rand), maxBlanks[1])
                      ELSE marked
    IN  IF block.blank THEN sections
        ELSE Append(sections, [text |-> marked, words |-> clozeWords,
                               sectionId |-> Len(sections)])

\* an entry of orderedSections; <<>> stands for null and for an absent
\* property
OrderedSection(type, sectionId, qs, count, tied) ==
    [type |-> type, sectionId |-> sectionId, questions |-> qs,
     count |-> count, tiedToPassage |-> tied]

\* the state of the loop of parseContent
ParserState ==
    [vocabularySections |-> vocabularySections, clozeSections |-> clozeSections,
     passages |-> passages, questionGroups |-> questionGroups,
     orderedSections |-> orderedSections, lastSectionType |-> lastSectionType,
     lastTextSectionId |-> lastTextSectionId]

\* the default case of the switch leaving the marker as it was
DropSection_KeepsMarker(st) == st

\* parseContent, the default case of its switch: the block is dropped
DropSection(st) == [st EXCEPT !.lastSectionType = "null"]

\* parseContent, one turn of its loop: the block is parsed into the state
\* st, rand being the draws of the shuffle the block may need
ParseSection(st, block, rand) ==
    LET type == SectionType(block.header)
        count == HeaderCount(block.header)
        ordered == st.orderedSections
        newId == Len(st.passages)
        isTied == \/ st.lastSectionType \in {"text", "instructions"}
                  \/ /\ st.lastSectionType = "questions"
                     /\ Len(ordered) > 0
                     /\ ordered[Len(ordered)].tiedToPassage
    IN  CASE type = "vocab" ->
               [st EXCEPT !.vocabularySections =
                              ParseVocabulary(@, block, count, rand),
                          !.orderedSections =
                              Append(@, OrderedSection("vocab", <<>>, <<>>, count, FALSE)),
                          !.lastSectionType = "vocab"]
          [] type = "cloze" ->
               [st EXCEPT !.clozeSections = ParseCloze(@, block, count, rand),
                          !.orderedSections =
                              Append(@, OrderedSection("cloze", <<>>, <<>>, count, FALSE)),
                          !.lastSectionType = "cloze"]
          [] type \in {"instructions", "text"} ->
               [st EXCEPT !.passages = Append(@, [sectionId |-> newId,
                                                  isInstruction |-> type = "instructions"]),
                          !.orderedSections =
                              Append(@, OrderedSection(type, <<newId>>, <<>>, <<>>, FALSE)),
                          !.lastTextSectionId = <<newId>>,
                          !.lastSectionType = type]
          [] type = "questions" ->
               [st EXCEPT !.questionGroups =
                              Append(@, [sectionId |-> st.lastTextSectionId,
                                         questions |-> ParseQuestions(block.body),
                                         maxQuestions |-> count]),
                          !.orderedSections =
                              Append(@, OrderedSection("questions", st.lastTextSectionId,
                                         ParseQuestions(block.body), count,
                                         st.lastTextSectionId # <<>> /\ isTied)),
                          !.lastSectionType = "questions"]
          [] type = "audio" -> [st EXCEPT !.lastSectionType = "audio"]
          [] OTHER -> DropSection(st)

\* the draws a block can need: those of one shuffle of its items
BlockDraws(block) ==
    CASE SectionType(block.header) = "vocab" -> RandomDraws(Len(AllVocab(block.body)))
      [] SectionType(block.header) = "cloze" -> RandomDraws(Len(block.marked))
      [] OTHER -> {<<>>}

\* the draws of one parse of a document, one per block
DrawsFor(doc) ==
    {rands \in [1..Len(doc) -> UNION {BlockDraws(doc[i]) : i \in 1..Len(doc)}] :
        \A i \in 1..Len(doc) : rands[i] \in BlockDraws(doc[i])}

RECURSIVE ParseFrom(_, _, _, _)
\* parseContent, its loop from block i on
ParseFrom(st, doc, i, rands) ==
    IF i > Len(doc) THEN st
    ELSE ParseFrom(ParseSection(st, doc[i], rands[i]), doc, i + 1, rands)

\* the parser state becomes st
SetParserState(st) ==
    /\ vocabularySections' = st.vocabularySections
    /\ clozeSections' = st.clozeSections
    /\ passages' = st.passages
    /\ questionGroups' = st.questionGroups
    /\ orderedSections' = st.orderedSections
    /\ lastSectionType' = st.lastSectionType
    /\ lastTextSectionId' = st.lastTextSectionId

\* ------------------------------------------------------- construction
\* the state the constructor leaves, for a document among docs and, where
\* shuffleArray is called alone, an array among arrays
InitWith(docs, arrays) ==
    /\ submissionAttribute = <<>>
    /\ shuffleInput \in arrays
    /\ shuffled = shuffleInput
    /\ vocabChoices = <<>>
    /\ rendered = <<>>
    /\ textContent \in docs
    /\ sectionIndex = 1
    /\ lastSectionType = "null"
    /\ lastTextSectionId = <<>>
    /\ passages = <<>>
    /\ questionGroups = <<>>
    /\ orderedSections = <<>>
    /\ connected = FALSE
    /\ questions = <<>>
    /\ maxQuestions = <<>>
    /\ vocabularySections = <<>>
    /\ clozeSections = <<>>
    /\ submissionUrl \in SubmissionUrls
    /\ currentQuestions = <<>>
    /\ totalQuestions = 0
    /\ questionsAnswered = 0
    /\ userQuestionAnswers = EmptyMap
    /\ score = 0
    /\ vocabUserChoices = EmptyMap
    /\ vocabScore = 0
    /\ vocabSubmitted = FALSE
    /\ clozeAnswers = EmptyMap
    /\ clozeScore = 0
    /\ clozeSubmitted = FALSE
    /\ quizUnlocked = FALSE
    /\ autoSubmissionInProgress = FALSE
    /\ scoreSubmitted = FALSE
    /\ radios = <<>>
    /\ vocabInputs = EmptyMap
    /\ clozeInputs = EmptyMap
    /\ studentInputs = Template.studentInputs
    /\ checkScoreDisabled = Template.checkScoreDisabled
    /\ hidden = Template.hidden
    /\ sendButton = Template.sendButton
    /\ tryAgainDisabled = Template.tryAgainDisabled
    /\ validationMessage = Template.validationMessage
    /\ requests = <<>>
    /\ inFlight = <<>>
    /\ lastResponse = NoResponse

Init == InitWith(Documents, {<<>>})

\* the questions entry of orderedSections that generateQuiz renders (the
\* documents of the session model hold one questions block)
QuestionsSection(ordered) ==
    LET isQuestions(sec) == sec.type = "questions"
        found == SelectSeq(ordered, isQuestions)
    IN  IF found = <<>> THEN OrderedSection("questions", <<>>, <<>>, <<>>, FALSE)
        ELSE found[1]

\* connectedCallback: parseContent on the whole document, then
\* generateQuiz and lockQuizContent
ConnectedCallback ==
    /\ ~connected
    /\ connected' = TRUE
    /\ \E rands \in DrawsFor(textContent) :
          LET st == ParseFrom(ParserState, textContent, sectionIndex, rands)
              sec == QuestionsSection(st.orderedSections)
          IN  /\ SetParserState(st)
              /\ sectionIndex' = Len(textContent) + 1
              /\ maxQuestions' = sec.count
              /\ \E rand \in RandomDraws(Len(sec.questions)),
                    orands \in OptionDraws(sec.questions) :
                    GenerateQuiz(sec.questions, sec.count, st.vocabularySections,
                                 st.clozeSections, rand, orands)
    /\ submissionUrl' = IF submissionAttribute # <<>> THEN submissionAttribute[1]
                        ELSE submissionUrl
    /\ hidden' = (hidden \cup {"quizContent"}) \ {"startQuizButton"}
    /\ quizUnlocked' = FALSE
    /\ UNCHANGED <<callVars, textContent, vocabVars, clozeVars, submitVars,
                   studentInputs, sendButton, tryAgainDisabled, validationMessage,
                   netVars>>

\* parseContent, one turn of its loop on the block it is at
ParseContent ==
    /\ ~connected
    /\ sectionIndex <= Len(textContent)
    /\ \E rand \in BlockDraws(textContent[sectionIndex]) :
          SetParserState(ParseSection(ParserState, textContent[sectionIndex], rand))
    /\ sectionIndex' = sectionIndex + 1
    /\ UNCHANGED <<callVars, connected, textContent, questions, maxQuestions, submissionUrl,
                   questionVars, vocabVars, clozeVars, quizUnlocked, submitVars,
                   inputVars, studentInputs, controlVars, netVars>>

\* the parser alone, on the documents of up to MaxChunks blocks
ParseInit == InitWith(ParserDocuments, {<<>>})

ParseSpec == ParseInit /\ [][ParseContent]_vars

\* shuffleArray alone: one call on the array, which it changes in place
ShuffleArrayCall ==
    /\ \E rand \in RandomDraws(Len(shuffled)) :
          shuffled' = ShuffleArray(shuffled, rand)
    /\ UNCHANGED <<shuffleInput, vocabChoices, rendered, submissionAttribute, connected, parseVars, questions, maxQuestions,
                   vocabularySections, clozeSections, submissionUrl, questionVars,
                   vocabVars, clozeVars, quizUnlocked, submitVars, inputVars,
                   studentInputs, controlVars, netVars>>

\* shuffleArray alone, on the arrays of up to MaxArray elements
ShuffleInit == InitWith({<<>>}, ShuffleArrays)

ShuffleSpec == ShuffleInit /\ [][ShuffleArrayCall]_vars

\* generateVocabMatching, the row of one word of the first section: the
\* definitions are shuffled, those that differ from the correct one are
\* shuffled and the first three of them join the correct one, and the
\* choices are shuffled
GenerateVocabMatching ==
    /\ ~connected
    /\ sectionIndex > Len(textContent)
    /\ vocabChoices = <<>>
    /\ Len(vocabularySections) > 0
    /\ LET vocabulary == vocabularySections[1].vocabulary
       IN  \E wordIndex \in 1..Len(vocabulary), rand1 \in RandomDraws(Len(vocabulary)) :
              LET allDefinitions ==
                      ShuffleArray([i \in 1..Len(vocabulary) |-> vocabulary[i].definition],
                                   rand1)
                  correctDef == vocabulary[wordIndex].definition
                  differs(d) == d # correctDef
                  filtered == SelectSeq(allDefinitions, differs)
              IN  \E rand2 \in RandomDraws(Len(filtered)) :
                     LET otherDefs == ShuffleArray(filtered, rand2)
                         choices == <<correctDef>> \o SliceTo(otherDefs, 3)
                     IN  \E rand3 \in RandomDraws(Len(choices)) :
                            vocabChoices' =
                                <<[word |-> vocabulary[wordIndex].word,
                                   choices |-> ShuffleArray(choices, rand3)]>>
    /\ UNCHANGED <<shuffleInput, shuffled, rendered, submissionAttribute, connected, parseVars, questions,
                   maxQuestions, vocabularySections, clozeSections, submissionUrl,
                   questionVars, vocabVars, clozeVars, quizUnlocked, submitVars,
                   inputVars, studentInputs, controlVars, netVars>>

\* generateVocabMatching alone, after the parse of a vocab block
MatchingInit == InitWith(MatchingDocuments, {<<>>})

MatchingSpec == MatchingInit /\ [][ParseContent \/ GenerateVocabMatching]_vars

RECURSIVE RenderFrom(_, _, _, _, _)
\* generateQuiz, its loop over orderedSections from entry i on: a vocab
\* entry is rendered with vocabularySections[vocabRenderIndex++], a cloze
\* entry with clozeSections[clozeRenderIndex++], and with nothing when
\* there is no such section
RenderFrom(ordered, i, vocabRenderIndex, clozeRenderIndex, cards) ==
    IF i > Len(ordered) THEN cards
    ELSE LET sec == ordered[i]
             at(sections, index) == IF index < Len(sections)
                                    THEN <<sections[index + 1]>> ELSE <<>>
         IN  CASE sec.type = "vocab" ->
                    RenderFrom(ordered, i + 1, vocabRenderIndex + 1, clozeRenderIndex,
                               Append(cards, [type |-> "vocab",
                                              data |-> at(vocabularySections,
                                                          vocabRenderIndex)]))
               [] sec.type = "cloze" ->
                    RenderFrom(ordered, i + 1, vocabRenderIndex, clozeRenderIndex + 1,
                               Append(cards, [type |-> "cloze",
                                              data |-> at(clozeSections,
                                                          clozeRenderIndex)]))
               [] OTHER ->
                    RenderFrom(ordered, i + 1, vocabRenderIndex, clozeRenderIndex,
                               Append(cards, [type |-> sec.type, data |-> <<>>]))

\* generateQuiz, the rendering of the ordered sections of a parsed document
RenderSections ==
    /\ ~connected
    /\ sectionIndex > Len(textContent)
    /\ rendered = <<>>
    /\ rendered' = RenderFrom(orderedSections, 1, 0, 0, <<>>)
    /\ UNCHANGED <<shuffleInput, shuffled, vocabChoices, submissionAttribute, connected, parseVars,
                   questions, maxQuestions, vocabularySections, clozeSections,
                   submissionUrl, questionVars, vocabVars, clozeVars, quizUnlocked,
                   submitVars, inputVars, studentInputs, controlVars, netVars>>

\* the rendering of the ordered sections alone, after the parse
RenderInit == InitWith(RenderDocuments, {<<>>})

RenderSpec == RenderInit /\ [][ParseContent \/ RenderSections]_vars

\* the vocabulary parser alone, on the bodies of up to MaxLines lines
VocabularyInit == InitWith(VocabularyDocuments, {<<>>})

VocabularySpec == VocabularyInit /\ [][ParseContent]_vars

\* the questions parser alone, on the bodies of up to MaxLines lines
QuestionsInit == InitWith(QuestionsDocuments, {<<>>})

QuestionsSpec == QuestionsInit /\ [][ParseContent]_vars

\* ------------------------------------------------------ student gate
\* validateStudentInfoFields without the trim
ValidateStudentInfoFields_NoTrim ==
    \A f \in DOMAIN studentInputs : studentInputs[f] # <<>>

\* validateStudentInfoFields: no field is blank after trimming
ValidateStudentInfoFields ==
    \A f \in DOMAIN studentInputs : Trim(studentInputs[f]) # <<>>

\* the user types into one of the three student information fields
EditStudentInput ==
    /\ connected
    /\ "studentInfoSection" \notin hidden
    /\ \E f \in DOMAIN studentInputs, text \in StudentTexts :
          /\ text # studentInputs[f]
          /\ studentInputs' = [studentInputs EXCEPT ![f] = text]
    /\ UNCHANGED <<connected, docVars, questionVars, vocabVars, clozeVars,
                   quizUnlocked, submitVars, inputVars, controlVars,
                   netVars>>

\* handleStartQuiz (with unlockQuizContent)
HandleStartQuiz ==
    /\ connected
    /\ "startQuizButton" \notin hidden
    /\ IF ~ValidateStudentInfoFields
       THEN UNCHANGED <<hidden, quizUnlocked>>
       ELSE /\ hidden' = (hidden \ {"quizContent"}) \cup {"startQuizButton"}
            /\ quizUnlocked' = TRUE
    /\ UNCHANGED <<connected, docVars, questionVars, vocabVars, clozeVars,
                   submitVars, inputVars, studentInputs, checkScoreDisabled,
                   sendButton, tryAgainDisabled, validationMessage,
                   netVars>>

\* ------------------------------------------------- completeness gate
\* vocabComplete of handleAnswer, handleClozeAnswer and
\* updateCheckScoreButtonState
VocabComplete(vs, choices) ==
    Len(vs) = 0 \/ Cardinality(DOMAIN choices) = GetTotalVocabWords(vs)

\* checkAllQuestionsAnswered
CheckAllQuestionsAnswered(answered, total) == answered = total

\* checkAllClozeAnswered counting every recorded blank, empty text too
CheckAllClozeAnswered_CountsEmpty(cs, answers) ==
    Cardinality(DOMAIN answers) = TotalBlanks(cs)

\* checkAllClozeAnswered
CheckAllClozeAnswered(cs, answers) ==
    Cardinality({k \in DOMAIN answers : Len(answers[k]) > 0}) = TotalBlanks(cs)

\* the input of an answer can be used: it is inside the visible quiz
\* content and is not disabled
Usable(input) == connected /\ "quizContent" \notin hidden /\ ~input.disabled

\* handleAnswer: the change event of a radio button of question index
\* (counted from 0)
HandleAnswer(index, value) ==
    /\ index + 1 \in DOMAIN radios
    /\ Usable(radios[index + 1])
    /\ <<value>> # radios[index + 1].checked
    /\ radios' = [radios EXCEPT ![index + 1].checked = <<value>>]
    /\ LET answers == Put(userQuestionAnswers, index, value)
           answeredCount == Cardinality(DOMAIN answers)
       IN  /\ userQuestionAnswers' = answers
           /\ questionsAnswered' = answeredCount
           /\ checkScoreDisabled' =
                 IF /\ VocabComplete(vocabularySections, vocabUserChoices)
                    /\ CheckAllQuestionsAnswered(answeredCount, totalQuestions)
                    /\ CheckAllClozeAnswered(clozeSections, clozeAnswers)
                 THEN FALSE ELSE checkScoreDisabled
    /\ UNCHANGED <<connected, docVars, currentQuestions, totalQuestions, score,
                   vocabVars, clozeVars, quizUnlocked, submitVars, vocabInputs,
                   clozeInputs, studentInputs, hidden, sendButton,
                   tryAgainDisabled, validationMessage, netVars>>

\* updateCheckScoreButtonState, for the vocabulary choices as just updated
UpdateCheckScoreButtonState(choices) ==
    IF /\ VocabComplete(vocabularySections, choices)
       /\ (totalQuestions = 0
             \/ CheckAllQuestionsAnswered(questionsAnswered, totalQuestions))
       /\ CheckAllClozeAnswered(clozeSections, clozeAnswers)
    THEN FALSE ELSE checkScoreDisabled

\* handleVocabAnswer: the input event of a vocabulary matching input
HandleVocabAnswer(key, text) ==
    /\ key \in DOMAIN vocabInputs
    /\ Usable(vocabInputs[key])
    /\ text # vocabInputs[key].value
    /\ LET value == ToUpperCase(Trim(text))
           choices == IF value # <<>> THEN Put(vocabUserChoices, key, value)
                      ELSE Delete(vocabUserChoices, key)
       IN  /\ vocabInputs' = [vocabInputs EXCEPT ![key].value = value]
           /\ vocabUserChoices' = choices
           /\ checkScoreDisabled' = UpdateCheckScoreButtonState(choices)
    /\ UNCHANGED <<connected, docVars, questionVars, vocabScore, vocabSubmitted,
                   clozeVars, quizUnlocked, submitVars, radios, clozeInputs,
                   studentInputs, hidden, sendButton, tryAgainDisabled,
                   validationMessage, netVars>>

\* handleClozeAnswer: the input event of a cloze blank
HandleClozeAnswer(key, text) ==
    /\ key \in DOMAIN clozeInputs
    /\ Usable(clozeInputs[key])
    /\ text # clozeInputs[key].value
    /\ LET userAnswer == ToLowerCase(Trim(text))
           answers == Put(clozeAnswers, key, userAnswer)
       IN  /\ clozeInputs' = [clozeInputs EXCEPT ![key].value = text]
           /\ clozeAnswers' = answers
           /\ checkScoreDisabled' =
                 IF /\ CheckAllClozeAnswered(clozeSections, answers)
                    /\ VocabComplete(vocabularySections, vocabUserChoices)
                    /\ (totalQuestions = 0
                          \/ CheckAllQuestionsAnswered(questionsAnswered, totalQuestions))
                 THEN FALSE ELSE checkScoreDisabled
    /\ UNCHANGED <<connected, docVars, questionVars, vocabVars, clozeScore,
                   clozeSubmitted, quizUnlocked, submitVars, radios, vocabInputs,
                   studentInputs, hidden, sendButton, tryAgainDisabled,
                   validationMessage, netVars>>

\* an answer event, for every input the user can reach
AnswerEvent ==
    \/ \E index \in 0..(Len(radios) - 1) :
          \E value \in Range(currentQuestions[index + 1].o) :
             HandleAnswer(index, value)
    \/ \E key \in DOMAIN vocabInputs, text \in VocabTexts :
          HandleVocabAnswer(key, text)
    \/ \E key \in DOMAIN clozeInputs, text \in ClozeTexts :
          HandleClozeAnswer(key, text)

\* ------------------------------------------------------------ scoring
\* showQuestionFeedback: the questions whose recorded answer is the
\* question's correct option
ShowQuestionFeedback(current, answers) ==
    Cardinality({i \in 1..Len(current) :
                    (i - 1) \in DOMAIN answers /\ answers[i - 1] = current[i].a})

\* showVocabScore: the rendered words whose recorded choice is the letter
\* of the word
ShowVocabScore(inputs, choices) ==
    Cardinality({key \in DOMAIN inputs :
                    key \in DOMAIN choices /\ choices[key] = inputs[key].correctLetter})

\* showClozeScore comparing the raw value of the input
ShowClozeScore_RawValue(inputs) ==
    Cardinality({key \in DOMAIN inputs : inputs[key].value = inputs[key].answer})

\* showClozeScore: the rendered blanks whose value, trimmed and in lower
\* case, is the blank's data-answer
ShowClozeScore(inputs) ==
    Cardinality({key \in DOMAIN inputs :
                    ToLowerCase(Trim(inputs[key].value)) = ToLowerCase(inputs[key].answer)})

\* totalPossible leaving the cloze blanks out
TotalPossible_NoCloze(vs, cs, total) == GetTotalVocabWords(vs) + total

\* totalPossible of showFinalScore and sendScore
TotalPossible(vs, cs, total) == GetTotalVocabWords(vs) + TotalBlanks(cs) + total

\* totalEarned of showFinalScore and sendScore
TotalEarned(vocab, cloze, question) == vocab + cloze + question

\* --------------------------------------------------------- submission
\* sendScore, the student information is incomplete: the controls and the
\* message it leaves
SendScoreInvalidInfo(autoTriggered, hid, send, tryAgain) ==
    [hidden |-> IF autoTriggered THEN hid \ {"sendButton"} ELSE hid,
     sendButton |-> IF autoTriggered THEN [send EXCEPT !.disabled = FALSE] ELSE send,
     tryAgainDisabled |-> tryAgain,
     validationMessage |-> [text |-> "Please fill out all student information fields.",
                            className |-> "error"]]

\* sendScore, no submission URL, leaving the send button enabled
SendScoreNoUrl_SendEnabled(hid) ==
    [hidden |-> hid \ {"sendButton"},
     sendButton |-> [disabled |-> FALSE, textContent |-> "No Submission URL"],
     tryAgainDisabled |-> FALSE,
     validationMessage |-> [text |-> "No submission URL configured.",
                            className |-> "error"]]

\* sendScore, no submission URL: the controls and the message it leaves
SendScoreNoUrl(hid) ==
    [hidden |-> hid \ {"sendButton"},
     sendButton |-> [disabled |-> TRUE, textContent |-> "No Submission URL"],
     tryAgainDisabled |-> FALSE,
     validationMessage |-> [text |-> "No submission URL configured.",
                            className |-> "error"]]

\* sendScore issuing the request without disabling the try-again button
SendScoreSubmitting_TryAgainEnabled(autoTriggered, hid, send) ==
    [hidden |-> IF autoTriggered THEN hid \cup {"sendButton"} ELSE hid,
     sendButton |-> IF autoTriggered THEN send
                    ELSE [disabled |-> TRUE, textContent |-> "Sending..."],
     tryAgainDisabled |-> FALSE,
     validationMessage |-> [text |-> IF autoTriggered
                                     THEN "Submitting score to teacher..." ELSE "",
                            className |-> ""]]

\* sendScore, the request is about to be issued: the controls and the
\* message while it is in flight
SendScoreSubmitting(autoTriggered, hid, send) ==
    [hidden |-> IF autoTriggered THEN hid \cup {"sendButton"} ELSE hid,
     sendButton |-> IF autoTriggered THEN send
                    ELSE [disabled |-> TRUE, textContent |-> "Sending..."],
     tryAgainDisabled |-> TRUE,
     validationMessage |-> [text |-> IF autoTriggered
                                     THEN "Submitting score to teacher..." ELSE "",
                            className |-> ""]]

\* sendScore after a success, leaving the send button shown and enabled
SendScoreSucceeded_SendEnabled(autoTriggered, data, hid) ==
    [hidden |-> hid \ {"sendButton"},
     sendButton |-> [disabled |-> FALSE, textContent |-> "Score Sent"],
     tryAgainDisabled |-> FALSE,
     validationMessage |-> [text |-> "Submission successful!", className |-> "success"]]

\* sendScore, the try block ran to its end: the controls and the message
SendScoreSucceeded(autoTriggered, data, hid) ==
    [hidden |-> hid \cup {"sendButton"},
     sendButton |-> [disabled |-> TRUE, textContent |-> "Score Sent"],
     tryAgainDisabled |-> FALSE,
     validationMessage |-> [text |-> IF autoTriggered
                                     THEN "Score automatically submitted to your teacher"
                                     ELSE IF data = "message" THEN "data.message"
                                          ELSE "Submission successful!",
                            className |-> "success"]]

\* sendScore after a failure, leaving the send button disabled
SendScoreFailed_SendDisabled(autoTriggered, hid) ==
    [hidden |-> hid \ {"sendButton"},
     sendButton |-> [disabled |-> TRUE, textContent |-> "Try Sending Again"],
     tryAgainDisabled |-> FALSE,
     validationMessage |-> [text |-> "Could not submit score. Please try again.",
                            className |-> "error"]]

\* sendScore after a failure, leaving the try-again button disabled
SendScoreFailed_TryAgainDisabled(autoTriggered, hid) ==
    [hidden |-> hid \ {"sendButton"},
     sendButton |-> [disabled |-> FALSE,
                     textContent |-> IF autoTriggered THEN "Send Score Again"
                                     ELSE "Try Sending Again"],
     tryAgainDisabled |-> TRUE,
     validationMessage |-> [text |-> "Could not submit score. Please try again.",
                            className |-> "error"]]

\* sendScore, the catch block: the controls and the message
SendScoreFailed(autoTriggered, hid) ==
    [hidden |-> hid \ {"sendButton"},
     sendButton |-> [disabled |-> FALSE,
                     textContent |-> IF autoTriggered THEN "Send Score Again"
                                     ELSE "Try Sending Again"],
     tryAgainDisabled |-> FALSE,
     validationMessage |-> [text |-> "Could not submit score. Please try again.",
                            className |-> "error"]]

\* the controls and the message become those of the record c
SetControls(c) ==
    /\ hidden' = c.hidden
    /\ sendButton' = c.sendButton
    /\ tryAgainDisabled' = c.tryAgainDisabled
    /\ validationMessage' = c.validationMessage

\* sendScore up to its first await, called with the controls as its
\* caller left them (hid, send, tryAgain, message) and the scores to send
SendScore(autoTriggered, hid, send, tryAgain, message, earned, possible) ==
    IF autoSubmissionInProgress
    THEN /\ SetControls([hidden |-> hid, sendButton |-> send,
                         tryAgainDisabled |-> tryAgain,
                         validationMessage |-> message])
         /\ UNCHANGED <<autoSubmissionInProgress, requests, inFlight, lastResponse>>
    ELSE IF ~ValidateStudentInfoFields
    THEN /\ SetControls(SendScoreInvalidInfo(autoTriggered, hid, send, tryAgain))
         /\ UNCHANGED <<autoSubmissionInProgress, requests, inFlight, lastResponse>>
    ELSE IF submissionUrl = ""
    THEN /\ SetControls(SendScoreNoUrl(hid))
         /\ UNCHANGED <<autoSubmissionInProgress, requests, inFlight, lastResponse>>
    ELSE LET request == [score |-> earned, total |-> possible,
                         url |-> submissionUrl, autoTriggered |-> autoTriggered]
         IN  /\ autoSubmissionInProgress' = TRUE
             /\ SetControls(SendScoreSubmitting(autoTriggered, hid, send))
             /\ requests' = Append(requests, request)
             /\ inFlight' = Append(inFlight, request)
             /\ UNCHANGED lastResponse

\* the scoring functions leaving the inputs enabled
DisableInputs_LeavesEnabled(inputs) == inputs

\* input.disabled = true, for every input the scoring function visits
DisableInputs(inputs) ==
    [k \in DOMAIN inputs |-> [inputs[k] EXCEPT !.disabled = TRUE]]

\* showFinalScore ending with this.sendScore()
ShowFinalScoreSend_NotAuto(hid, send, tryAgain, message, earned, possible) ==
    SendScore(FALSE, hid, send, tryAgain, message, earned, possible)

\* showFinalScore, its last statement: this.sendScore(true)
ShowFinalScoreSend(hid, send, tryAgain, message, earned, possible) ==
    SendScore(TRUE, hid, send, tryAgain, message, earned, possible)

\* showFinalScore, with the sendScore(true) that ends it
ShowFinalScore ==
    LET scoreVocab == Len(vocabularySections) > 0 /\ ~vocabSubmitted
        scoreCloze == Len(clozeSections) > 0 /\ ~clozeSubmitted
        newScore == IF totalQuestions > 0
                    THEN ShowQuestionFeedback(currentQuestions, userQuestionAnswers)
                    ELSE score
        newVocabScore == IF scoreVocab
                         THEN ShowVocabScore(vocabInputs, vocabUserChoices)
                         ELSE vocabScore
        newClozeScore == IF scoreCloze THEN ShowClozeScore(clozeInputs)
                         ELSE clozeScore
        totalPossible == TotalPossible(vocabularySections, clozeSections, totalQuestions)
        totalEarned == TotalEarned(newVocabScore, newClozeScore, newScore)
    IN  /\ score' = newScore
        /\ radios' = IF totalQuestions > 0 THEN DisableInputs(radios) ELSE radios
        /\ vocabScore' = newVocabScore
        /\ vocabSubmitted' = (vocabSubmitted \/ scoreVocab)
        /\ vocabInputs' = IF scoreVocab THEN DisableInputs(vocabInputs)
                          ELSE vocabInputs
        /\ clozeScore' = newClozeScore
        /\ clozeSubmitted' = (clozeSubmitted \/ scoreCloze)
        /\ clozeInputs' = IF scoreCloze THEN DisableInputs(clozeInputs)
                          ELSE clozeInputs
        /\ ShowFinalScoreSend(
                     (hidden \cup {"studentInfoSection", "checkScoreContainer",
                                   "sendButton"}) \ {"postScoreActions", "resultArea"},
                     [disabled |-> TRUE, textContent |-> "Resend Score to Teacher"],
                     FALSE, validationMessage, totalEarned, totalPossible)
        /\ UNCHANGED <<connected, docVars, currentQuestions, totalQuestions,
                       questionsAnswered, userQuestionAnswers, vocabUserChoices,
                       clozeAnswers, quizUnlocked, scoreSubmitted, studentInputs,
                       checkScoreDisabled>>

\* the submit event of the quiz form reaches handleSubmit: the check-score
\* button is its submit button, and a disabled or hidden button submits
\* nothing
CanSubmit ==
    connected /\ ~checkScoreDisabled /\ "checkScoreContainer" \notin hidden

\* handleSubmit
HandleSubmit ==
    /\ CanSubmit
    /\ IF ~quizUnlocked \/ ~ValidateStudentInfoFields
       THEN UNCHANGED vars
       ELSE ShowFinalScore

\* the click on the send button reaches sendScore()
CanSend ==
    /\ connected
    /\ ~sendButton.disabled
    /\ "sendButton" \notin hidden
    /\ "postScoreActions" \notin hidden

\* the click listener of the send button: sendScore(), not auto-triggered
SendButtonClick ==
    /\ CanSend
    /\ Len(requests) < MaxRequests
    /\ SendScore(FALSE, hidden, sendButton, tryAgainDisabled, validationMessage,
                 TotalEarned(vocabScore, clozeScore, score),
                 TotalPossible(vocabularySections, clozeSections, totalQuestions))
    /\ UNCHANGED <<connected, docVars, questionVars, vocabVars, clozeVars,
                   quizUnlocked, scoreSubmitted, inputVars, studentInputs,
                   checkScoreDisabled>>

\* the try block of sendScore after its awaits completes without a throw
\* for this response: fetch resolved, response.ok, and the body was read
\* (response.json() parses it when the content type says JSON;
\* data.message is read for a manual send only)
Fulfilled(request, resp) ==
    /\ resp.kind = "response"
    /\ resp.ok
    /\ resp.json => /\ resp.body # "malformed"
                    /\ (resp.body = "null" => request.autoTriggered)

\* sendScore from its first await on: the response to one request in
\* flight arrives
SendScoreSettle ==
    /\ \E i \in DOMAIN inFlight, resp \in Responses :
          LET request == inFlight[i]
              data == IF resp.json THEN resp.body ELSE "message"
          IN  /\ inFlight' = [j \in 1..(Len(inFlight) - 1) |->
                                 IF j < i THEN inFlight[j] ELSE inFlight[j + 1]]
              /\ lastResponse' = resp
              /\ IF Fulfilled(request, resp)
                 THEN /\ SetControls(SendScoreSucceeded(request.autoTriggered, data, hidden))
                      /\ scoreSubmitted' = TRUE
                 ELSE /\ SetControls(SendScoreFailed(request.autoTriggered, hidden))
                      /\ UNCHANGED scoreSubmitted
    /\ autoSubmissionInProgress' = FALSE
    /\ UNCHANGED <<connected, docVars, questionVars, vocabVars, clozeVars,
                   quizUnlocked, inputVars, studentInputs, checkScoreDisabled,
                   requests>>

\* -------------------------------------------------------------- reset
\* the click on the try-again button reaches resetQuiz
CanReset ==
    connected /\ ~tryAgainDisabled /\ "postScoreActions" \notin hidden

\* resetQuiz forgetting to clear scoreSubmitted
ResetSubmission_KeepsSubmitted ==
    /\ UNCHANGED scoreSubmitted
    /\ autoSubmissionInProgress' = FALSE

\* resetQuiz, the submission flags
ResetSubmission ==
    /\ scoreSubmitted' = FALSE
    /\ autoSubmissionInProgress' = FALSE

\* resetQuiz, with the generateQuiz and lockQuizContent it calls
ResetQuiz ==
    /\ CanReset
    /\ \E rand \in RandomDraws(Len(questions)), orands \in OptionDraws(questions) :
          GenerateQuiz(questions, maxQuestions, vocabularySections,
                       clozeSections, rand, orands)
    \* quizForm.reset() clears the student fields if the template puts
    \* them inside the form
    /\ studentInputs' \in {studentInputs, Template.studentInputs}
    /\ hidden' = (hidden \ {"studentInfoSection", "checkScoreContainer",
                            "startQuizButton"})
                    \cup {"resultArea", "postScoreActions", "sendButton", "quizContent"}
    /\ validationMessage' = [text |-> "", className |-> ""]
    /\ vocabUserChoices' = EmptyMap
    /\ vocabScore' = 0
    /\ vocabSubmitted' = FALSE
    /\ clozeAnswers' = EmptyMap
    /\ clozeScore' = 0
    /\ clozeSubmitted' = FALSE
    /\ ResetSubmission
    /\ sendButton' = [disabled |-> FALSE, textContent |-> "Resend Score to Teacher"]
    /\ tryAgainDisabled' = FALSE
    /\ quizUnlocked' = FALSE
    /\ requests' = <<>>
    /\ lastResponse' = NoResponse
    /\ UNCHANGED <<connected, parseVars, maxQuestions, vocabularySections,
                   clozeSections, submissionUrl, callVars, inFlight>>

Next ==
    \/ ConnectedCallback
    \/ EditStudentInput
    \/ HandleStartQuiz
    \/ AnswerEvent
    \/ HandleSubmit
    \/ SendButtonClick
    \/ SendScoreSettle
    \/ ResetQuiz

Spec == Init /\ [][Next]_vars

\* the sessions on one document of one pair, one blank and one question,
\* every request in flight being answered at last: the promise of fetch
\* resolves or rejects and the continuation of sendScore runs
SettleDocuments ==
    {<<VocabBlock(1, <<>>), ClozeBlock(1, <<>>), QuestionsBlock(BankBody(1), <<>>)>>}

SettleInit == InitWith(SettleDocuments, {<<>>})

SettleSpec == SettleInit /\ [][Next]_vars /\ WF_vars(SendScoreSettle)

\* sendScore called as a method of the connected element, by the page that
\* hosts it, whatever the state of the session
SendScoreCall ==
    /\ connected
    /\ Len(requests) < MaxRequests
    /\ \E autoTriggered \in BOOLEAN :
          SendScore(autoTriggered, hidden, sendButton, tryAgainDisabled,
                    validationMessage,
                    TotalEarned(vocabScore, clozeScore, score),
                    TotalPossible(vocabularySections, clozeSections, totalQuestions))
    /\ UNCHANGED <<connected, docVars, questionVars, vocabVars, clozeVars,
                   quizUnlocked, scoreSubmitted, inputVars, studentInputs,
                   checkScoreDisabled>>

\* the element of one document used through sendScore alone: the fields
\* are edited, the page calls sendScore, and the requests are answered
CallSpec ==
    SettleInit /\ [][\/ ConnectedCallback
                     \/ EditStudentInput
                     \/ SendScoreCall
                     \/ SendScoreSettle]_vars

\* attributeChangedCallback(name, newValue), with the value of its second
\* parameter
AttributeChangedCallback(name, newValue) ==
    IF name = "submission-url" THEN newValue ELSE submissionUrl

\* the page sets the submission-url attribute: the platform calls
\* attributeChangedCallback(name, oldValue, newValue), whose second argument
\* is the value the attribute had (null, read like "", when it was absent)
SetSubmissionUrlAttribute ==
    /\ \E value \in AttributeUrls :
          LET oldValue == IF submissionAttribute = <<>> THEN ""
                          ELSE submissionAttribute[1]
          IN  /\ value # oldValue
              /\ submissionAttribute' = <<value>>
              /\ submissionUrl' = AttributeChangedCallback("submission-url", oldValue)
    /\ UNCHANGED <<shuffleInput, shuffled, vocabChoices, rendered, connected,
                   parseVars, questions, maxQuestions, vocabularySections,
                   clozeSections, questionVars, vocabVars, clozeVars, quizUnlocked,
                   submitVars, inputVars, studentInputs, controlVars, netVars>>

\* the sessions of one document in which the page sets the attribute
AttributeSpec == SettleInit /\ [][Next \/ SetSubmissionUrlAttribute]_vars

\* the sessions on the documents whose cloze text marks a word twice
RepeatInit == InitWith(RepeatDocuments, {<<>>})

RepeatSpec == RepeatInit /\ [][Next]_vars

\* ------------------------------------------------- session and status
\* the session states of the quiz, read off the element
Locked == connected /\ ~quizUnlocked
Checked == connected /\ "resultArea" \notin hidden
Answering == connected /\ quizUnlocked /\ ~Checked

\* the items of the current try
QuestionKeys == 0..(totalQuestions - 1)
VocabKeys ==
    UNION {{<<vocabularySections[k].sectionId, vocabularySections[k].vocabulary[i].word>> :
               i \in 1..Len(vocabularySections[k].vocabulary)} :
           k \in 1..Len(vocabularySections)}
ClozeKeys ==
    UNION {{<<clozeSections[k].sectionId, b - 1>> :
               b \in 1..Len(clozeSections[k].words)} :
           k \in 1..Len(clozeSections)}

\* the completeness predicate: every question has a recorded answer, every
\* vocabulary word a recorded choice, every cloze blank non-empty text
Complete ==
    /\ \A i \in QuestionKeys : i \in DOMAIN userQuestionAnswers
    /\ \A k \in VocabKeys : k \in DOMAIN vocabUserChoices
    /\ \A k \in ClozeKeys : k \in DOMAIN clozeAnswers /\ clozeAnswers[k] # <<>>

\* the submission status, read off the flags and the message of the
\* element
SubmissionStatus ==
    IF autoSubmissionInProgress THEN "Submitting"
    ELSE IF scoreSubmitted THEN "Succeeded"
    ELSE IF validationMessage.text = "Could not submit score. Please try again."
    THEN "Failed"
    ELSE IF validationMessage.text = "No submission URL configured."
    THEN "NoEndpoint"
    ELSE "Idle"

\* ------------------------------------------------------------- claims
\* C1: the check-score action moves the session to Checked only in a state
\* where the completeness predicate holds at that moment, also after a
\* recorded vocabulary choice or cloze text was cleared again.
C1_CheckedOnlyWhenComplete ==
    [][(~Checked /\ Checked') => Complete]_vars

\* C2: with 1 question, 1 vocabulary word and 1 cloze blank the check-score
\* button is enabled only by the answer event that records the last
\* missing item, that event does enable it, and once enabled it stays
\* enabled until the try is regenerated: the gate opens once per try.
OneOfEach ==
    /\ connected
    /\ totalQuestions = 1
    /\ GetTotalVocabWords(vocabularySections) = 1
    /\ TotalBlanks(clozeSections) = 1

C2_GateOpensOnLastItem ==
    [][OneOfEach =>
          /\ (checkScoreDisabled /\ ~checkScoreDisabled') => (~Complete /\ Complete')
          /\ (~Complete /\ Complete') => ~checkScoreDisabled'
          /\ (~checkScoreDisabled /\ checkScoreDisabled') => (Checked /\ Locked')
      ]_vars

C2_Witness ==
    OneOfEach /\ Answering /\ Complete /\ ~checkScoreDisabled

AllowedTransitions ==
    {<<"Idle", "Submitting">>, <<"Submitting", "Succeeded">>,
     <<"Submitting", "Failed">>, <<"Failed", "Submitting">>}

C5_SubmissionStateMachine ==
    [][/\ (/\ SubmissionStatus' # SubmissionStatus
           /\ ~(Checked /\ Locked')
           /\ SubmissionStatus' # "NoEndpoint")
          => <<SubmissionStatus, SubmissionStatus'>> \in AllowedTransitions
       /\ (SubmissionStatus = "Succeeded" /\ ~(Checked /\ Locked'))
          => (SubmissionStatus' = "Succeeded" /\ requests' = requests)]_vars

C5_Witness ==
    /\ SubmissionStatus = "Succeeded"
    /\ Len(requests) = 2
    /\ ~requests[2].autoTriggered

\* C6: a failed submission leaves the three scores and the answer maps
\* unchanged and the send button usable, and a request sent from the
\* Failed status carries the score and total of the request that failed.
C6_FailureIsRecoverable ==
    [][/\ (SubmissionStatus = "Submitting" /\ SubmissionStatus' = "Failed")
          => /\ UNCHANGED <<score, vocabScore, clozeScore, userQuestionAnswers,
                            vocabUserChoices, clozeAnswers>>
             /\ CanSend'
       /\ (SubmissionStatus = "Failed" /\ Len(requests') = Len(requests) + 1)
          => /\ requests # <<>>
             /\ requests'[Len(requests')].score = requests[Len(requests)].score
             /\ requests'[Len(requests')].total = requests[Len(requests)].total
             /\ inFlight' = <<requests'[Len(requests')]>>]_vars

C6_Witness ==
    /\ SubmissionStatus = "Submitting"
    /\ Len(requests) = 2
    /\ ~requests[2].autoTriggered
    /\ lastResponse.kind # "none"
    /\ requests[2].total > 0

\* C7: with no submission URL no step issues a request or enters
\* Submitting; once Checked the status is the no-endpoint warning with the
\* send button disabled, whereas a failed submission leaves it enabled.
C7_NoEndpointIsTerminal ==
    [][/\ submissionUrl = ""
          => /\ Len(requests') <= Len(requests)
             /\ inFlight' = <<>>
             /\ ~autoSubmissionInProgress'
       /\ (Checked' /\ submissionUrl' = "")
          => /\ SubmissionStatus' = "NoEndpoint"
             /\ sendButton'.disabled
             /\ ~CanSend'
       /\ SubmissionStatus' = "Failed" => ~sendButton'.disabled]_vars

C7_Witness ==
    /\ Checked
    /\ submissionUrl = ""
    /\ sendButton.textContent = "No Submission URL"
    /\ "sendButton" \notin hidden

\* C8: once the response to a request has arrived, the submission has
\* succeeded if and only if the response was a 2xx response, whatever its
\* body.
C8_Every2xxSucceeds ==
    (inFlight = <<>> /\ lastResponse.kind # "none")
        => (scoreSubmitted <=> (lastResponse.kind = "response" /\ lastResponse.ok))

\* C9: every step that makes the session Checked issues, when a submission
\* URL is configured, exactly one request, automatically triggered and in
\* flight; automatically triggered requests are issued by no other step.
C9_CheckedAutoSubmits ==
    [][/\ (~Checked /\ Checked')
          => IF submissionUrl # ""
             THEN /\ requests = <<>>
                  /\ Len(requests') = 1
                  /\ requests'[1].autoTriggered
                  /\ inFlight' = requests'
             ELSE requests' = <<>> /\ inFlight' = <<>>
       /\ (/\ Len(requests') > Len(requests)
           /\ requests'[Len(requests')].autoTriggered)
          => (~Checked /\ Checked')]_vars

C9_Witness ==
    /\ Checked
    /\ SubmissionStatus = "Submitting"
    /\ Len(requests) = 1
    /\ requests[1].autoTriggered

\* C10: in a session with no question, no vocabulary word and no cloze
\* blank, the check-score action is available once the quiz is unlocked.
ZeroItems ==
    /\ connected
    /\ totalQuestions = 0
    /\ GetTotalVocabWords(vocabularySections) = 0
    /\ TotalBlanks(clozeSections) = 0

C10_ZeroItemsCanCheck ==
    (ZeroItems /\ Answering) => CanSubmit

\* C11: the map userQuestionAnswers has one entry per question that has a
\* selected radio button, holding the value selected last, and
\* questionsAnswered is the number of its keys, never more than the number
\* of questions.
C11_IdempotentAnswering ==
    /\ DOMAIN userQuestionAnswers =
          {i \in QuestionKeys : radios[i + 1].checked # <<>>}
    /\ \A i \in DOMAIN userQuestionAnswers :
          <<userQuestionAnswers[i]>> = radios[i + 1].checked
    /\ questionsAnswered = Cardinality(DOMAIN userQuestionAnswers)
    /\ questionsAnswered <= totalQuestions

C11_Witness ==
    /\ Answering
    /\ totalQuestions = 2
    /\ questionsAnswered = 2
    /\ userQuestionAnswers[0] = <<"no">>
    /\ userQuestionAnswers[1] = <<"yes">>

\* C12: in a Checked session the question score counts the questions whose
\* recorded answer is the correct option, the vocabulary score the words
\* whose recorded choice is the letter of the word in the word bank, and
\* the cloze score the blanks whose recorded (trimmed, lower-case) text is
\* the blank word in lower case.
WordLetter(key) ==
    LET vocabulary == vocabularySections[key[1] + 1].vocabulary
    IN  LetterOf((CHOOSE i \in 1..Len(vocabulary) : vocabulary[i].word = key[2]) - 1)

BlankWord(key) == clozeSections[key[1] + 1].words[key[2] + 1]

C13_CombinedScore ==
    Checked =>
        \A r \in 1..Len(requests) :
            /\ requests[r].score = vocabScore + clozeScore + score
            /\ requests[r].total = Cardinality(VocabKeys) + Cardinality(ClozeKeys)
                                       + Cardinality(QuestionKeys)

C13_Witness ==
    /\ Checked
    /\ score = 1 /\ totalQuestions = 1
    /\ vocabScore = 0 /\ Cardinality(VocabKeys) = 1
    /\ clozeScore = 1 /\ Cardinality(ClozeKeys) = 1
    /\ requests # <<>>
    /\ requests[1].score = 2
    /\ requests[1].total = 3

\* C14: a step that leaves Checked (resetQuiz) ends with the three answer
\* maps empty, questionsAnswered and the three scores 0, both submission
\* flags false, the check-score button disabled, the quiz locked and the
\* rendered inputs of the new try empty and enabled.
C14_ResetReplacesSession ==
    [][(Checked /\ ~Checked') =>
          /\ userQuestionAnswers' = EmptyMap
          /\ vocabUserChoices' = EmptyMap
          /\ clozeAnswers' = EmptyMap
          /\ questionsAnswered' = 0
          /\ score' = 0 /\ vocabScore' = 0 /\ clozeScore' = 0
          /\ ~scoreSubmitted' /\ ~autoSubmissionInProgress'
          /\ SubmissionStatus' = "Idle"
          /\ checkScoreDisabled'
          /\ ~quizUnlocked'
          /\ Locked'
          /\ "quizContent" \in hidden'
          /\ \A i \in DOMAIN radios' : radios'[i].checked = <<>> /\ ~radios'[i].disabled
          /\ \A k \in DOMAIN vocabInputs' :
                vocabInputs'[k].value = <<>> /\ ~vocabInputs'[k].disabled
          /\ \A k \in DOMAIN clozeInputs' :
                clozeInputs'[k].value = <<>> /\ ~clozeInputs'[k].disabled]_vars

C14_Witness ==
    /\ Checked
    /\ scoreSubmitted
    /\ score + vocabScore + clozeScore = 3
    /\ ENABLED ResetQuiz

\* C15: a step into Checked starts from an unlocked quiz whose three student
\* fields each hold a character other than a space, and a step that
\* unlocks the quiz is taken with the start button shown and such fields.
FieldsFilled ==
    \A f \in {"nickname", "homeroom", "studentId"} :
        \E i \in 1..Len(studentInputs[f]) : studentInputs[f][i] # " "

C15_LockedNeverChecked ==
    [][/\ (~Checked /\ Checked') => (quizUnlocked /\ FieldsFilled)
       /\ (Locked /\ ~Locked') => (FieldsFilled /\ "startQuizButton" \notin hidden)
       /\ Locked' => ~Checked']_vars

C15_Witness ==
    /\ Answering
    /\ CanSubmit
    /\ ~FieldsFilled
    /\ \E f \in DOMAIN studentInputs : studentInputs[f] = <<" ">>

\* C16: between two Checked states no step changes userQuestionAnswers,
\* vocabUserChoices, clozeAnswers or one of the three scores.
C16_CheckedIsFrozen ==
    [][(Checked /\ Checked') =>
          UNCHANGED <<userQuestionAnswers, vocabUserChoices, clozeAnswers,
                      score, vocabScore, clozeScore>>]_vars

C16_Witness ==
    /\ Checked
    /\ SubmissionStatus = "Failed"
    /\ radios # <<>> /\ \A i \in DOMAIN radios : radios[i].disabled
    /\ vocabInputs # EmptyMap /\ \A k \in DOMAIN vocabInputs : vocabInputs[k].disabled
    /\ clozeInputs # EmptyMap /\ \A k \in DOMAIN clozeInputs : clozeInputs[k].disabled

CapacityLimitedVocab ==
    \E i \in 1..Len(textContent) :
        LET count == HeaderCount(textContent[i].header)
        IN  /\ SectionType(textContent[i].header) = "vocab"
            /\ count # <<>>
            /\ count[1] >= 1
            /\ Len(AllVocab(textContent[i].body)) > count[1]

C18_VocabularyRedrawn ==
    (CanReset /\ CapacityLimitedVocab) =>
        ENABLED (ResetQuiz /\ vocabularySections' # vocabularySections)

\* C19: once the document is parsed, each vocabulary, cloze and questions
\* block whose header ends in -N, N a number (0 included), uses min(N,
\* available) of its items, and a block whose suffix is missing or is not
\* a number uses all of them.
Capacity(suffix) ==
    IF suffix # <<>> /\ \A i \in 1..Len(suffix) : IsDigit(suffix[i])
    THEN <<ParseInt(suffix)>> ELSE <<>>

Used(suffix, available) ==
    IF Capacity(suffix) = <<>> \/ Capacity(suffix)[1] > available THEN available
    ELSE Capacity(suffix)[1]

\* the positions in the document of the blocks of a type, in order
BlocksOfType(type) ==
    LET isType(i) == SectionType(textContent[i].header) = type
    IN  SelectSeq([i \in 1..Len(textContent) |-> i], isType)

Parsed == ~connected /\ sectionIndex > Len(textContent)

C19_CapacityIsMinimum ==
    Parsed =>
        /\ \A k \in 1..Len(BlocksOfType("vocab")) :
              LET block == textContent[BlocksOfType("vocab")[k]]
              IN  Len(vocabularySections[k].vocabulary) =
                      Used(block.header.suffix, Len(AllVocab(block.body)))
        /\ \A k \in 1..Len(BlocksOfType("cloze")) :
              LET block == textContent[BlocksOfType("cloze")[k]]
              IN  Len(clozeSections[k].words) =
                      Used(block.header.suffix, Len(block.marked))
        /\ \A k \in 1..Len(BlocksOfType("questions")) :
              LET block == textContent[BlocksOfType("questions")[k]]
                  group == questionGroups[k]
              IN  \A rand \in RandomDraws(Len(group.questions)) :
                      Len(QuestionsForSection(group.questions, group.maxQuestions, rand))
                          = Used(block.header.suffix, Len(ParseQuestions(block.body)))

\* C20: once the document is parsed, a questions block carries the id of
\* the most recent text or instructions block and is tied exactly when the
\* block right before it is a text block, an instructions block or a tied
\* questions block; otherwise its section id is null and it is not tied.
RECURSIVE TiedBlock(_)
TiedBlock(i) ==
    /\ i > 1
    /\ LET before == SectionType(textContent[i - 1].header)
       IN  \/ before \in {"text", "instructions"}
           \/ before = "questions" /\ TiedBlock(i - 1)

\* the id of the most recent text or instructions block before block i
RecentTextId(i) ==
    Cardinality({j \in 1..(i - 1) :
                    SectionType(textContent[j].header) \in {"text", "instructions"}}) - 1

QuestionsEntries ==
    LET isQuestions(sec) == sec.type = "questions"
    IN  SelectSeq(orderedSections, isQuestions)

C20_AttachedIffPrecededByText ==
    Parsed =>
        \A k \in 1..Len(BlocksOfType("questions")) :
            LET i == BlocksOfType("questions")[k]
                expected == IF TiedBlock(i) THEN <<RecentTextId(i)>> ELSE <<>>
            IN  /\ questionGroups[k].sectionId = expected
                /\ QuestionsEntries[k].sectionId = expected
                /\ QuestionsEntries[k].tiedToPassage = TiedBlock(i)

\* C21: once the document is parsed, orderedSections holds one entry for
\* each block with a recognized header (text, instructions, vocabulary,
\* cloze, questions, audio), of the type of that block, in the order of the
\* blocks in the document.
RecognizedBlocks ==
    LET isRecognized(i) == SectionType(textContent[i].header) # "null"
    IN  SelectSeq([i \in 1..Len(textContent) |-> i], isRecognized)

C21_OneEntryPerBlockInOrder ==
    Parsed =>
        /\ Len(orderedSections) = Len(RecognizedBlocks)
        /\ \A k \in 1..Len(RecognizedBlocks) :
              orderedSections[k].type =
                  SectionType(textContent[RecognizedBlocks[k]].header)

\* C22: when no option of the questions of the document carries the marker
\* [correct], every question of the try has an empty correct option, and
\* the question score of a Checked session is 0 whatever was answered.
NoOptionMarked ==
    \A i \in 1..Len(textContent) :
        SectionType(textContent[i].header) = "questions" =>
            ~Includes(textContent[i].body, "[correct]")

C22_UnmarkedNeverCorrect ==
    (connected /\ NoOptionMarked) =>
        /\ \A i \in 1..Len(currentQuestions) : currentQuestions[i].a = <<>>
        /\ Checked => score = 0

\* C23: once the document is parsed, no step (answer, check, submission,
\* reset) changes the parsed bank of questions (its members, their order,
\* their option lists and correct options), the question groups or
\* orderedSections.
C23_DocumentImmutable ==
    [][connected =>
          /\ questions' = questions
          /\ maxQuestions' = maxQuestions
          /\ questionGroups' = questionGroups
          /\ orderedSections' = orderedSections]_vars

C23_Witness ==
    /\ Checked
    /\ maxQuestions = <<1>>
    /\ questions = <<QuestionOf(1), QuestionOf(2)>>
    /\ currentQuestions = <<QuestionOf(2)>>
    /\ QuestionsEntries[1].questions = questions

\* C24: once the document is parsed, no step changes the blank words
\* selected by parseCloze, and the blanks of every try that is generated
\* are those of the selected words.
SelectedBlankWords(cs) ==
    UNION {{<<cs[k].sectionId, ToLowerCase(cs[k].words[i])>> :
               i \in 1..Len(cs[k].words)} : k \in 1..Len(cs)}

RenderedBlankWords(inputs) ==
    {<<key[1], inputs[key].answer>> : key \in DOMAIN inputs}

CapacityLimitedCloze ==
    \E i \in 1..Len(textContent) :
        LET count == HeaderCount(textContent[i].header)
        IN  /\ SectionType(textContent[i].header) = "cloze"
            /\ count # <<>>
            /\ count[1] >= 1
            /\ Len(textContent[i].marked) > count[1]

C24_ClozeSelectedOnce ==
    [][connected =>
          /\ clozeSections' = clozeSections
          /\ RenderedBlankWords(clozeInputs') = SelectedBlankWords(clozeSections)]_vars

C24_Witness ==
    /\ Checked
    /\ CapacityLimitedCloze
    /\ clozeSections[1].words = <<ClozeWordOf(2)>>
    /\ DOMAIN clozeAnswers = {<<0, 0>>}
    /\ ENABLED (ResetQuiz /\ RenderedBlankWords(clozeInputs') = {<<0, ToLowerCase(ClozeWordOf(2))>>})

\* C25: the turn of the loop of parseContent on a block whose header is
\* not recognized adds nothing to the passages, the question groups, the
\* vocabulary and cloze sections and orderedSections, keeps the id of the
\* last text block, and sets the marker of the last section type to none.
AtUnrecognizedBlock ==
    /\ ~connected
    /\ sectionIndex <= Len(textContent)
    /\ SectionType(textContent[sectionIndex].header) = "null"

C25_UnrecognizedDropped ==
    [][AtUnrecognizedBlock =>
          /\ sectionIndex' = sectionIndex + 1
          /\ lastSectionType' = "null"
          /\ UNCHANGED <<passages, questionGroups, orderedSections,
                         vocabularySections, clozeSections, lastTextSectionId>>]_vars

C25_Witness ==
    /\ Parsed
    /\ Len(textContent) = 3
    /\ SectionType(textContent[1].header) = "text"
    /\ SectionType(textContent[2].header) = "null"
    /\ SectionType(textContent[3].header) = "questions"
    /\ Len(orderedSections) = 2
    /\ ~orderedSections[2].tiedToPassage

\* C26: the bank parsed from a questions block holds one question per line
\* that starts with Q: or Q., in order, whatever the capacity of the
\* header; the options of a question are the A: lines between its Q line
\* and the next, the marker removed; its correct option is empty when none
\* of them is marked, else it is the last marked one and is one of its
\* options; its explanation is the last E: line of that stretch; the lines
\* before the first Q line and the lines with no known prefix add nothing.
IsQLine(line) == Head(line) \in {"Q:", "Q."}

\* the trimmed non-empty lines of the questions block of the document
QuestionsLines == TrimmedNonEmpty(Split(textContent[1].body, "\n"))

\* the positions of the Q lines
QLinePositions ==
    LET isQ(i) == IsQLine(QuestionsLines[i])
    IN  SelectSeq([i \in 1..Len(QuestionsLines) |-> i], isQ)

\* the lines after the k-th Q line and before the next Q line
LinesOfQuestion(k) ==
    SubSeq(QuestionsLines, QLinePositions[k] + 1,
           IF k < Len(QLinePositions) THEN QLinePositions[k + 1] - 1
           ELSE Len(QuestionsLines))

\* the text of a line after its prefix, the marker taken out
OptionText(line) == Trim(RemoveFirst(Trim(Tail(line)), "[correct]"))

C26_QuestionsParser ==
    Parsed =>
        LET bank == questionGroups[1].questions
        IN  /\ Len(bank) = Len(QLinePositions)
            /\ \A k \in 1..Len(bank) :
                  LET isA(line) == Head(line) = "A:"
                      isE(line) == Head(line) = "E:"
                      isMarked(line) == Head(line) = "A:" /\ Includes(line, "[correct]")
                      options == SelectSeq(LinesOfQuestion(k), isA)
                      marked == SelectSeq(LinesOfQuestion(k), isMarked)
                      explained == SelectSeq(LinesOfQuestion(k), isE)
                  IN  /\ bank[k].q = Trim(Tail(QuestionsLines[QLinePositions[k]]))
                      /\ bank[k].o = [i \in 1..Len(options) |-> OptionText(options[i])]
                      /\ bank[k].a = IF marked = <<>> THEN <<>>
                                     ELSE OptionText(marked[Len(marked)])
                      /\ marked # <<>> => bank[k].a \in Range(bank[k].o)
                      /\ bank[k].e = IF explained = <<>> THEN <<>>
                                     ELSE Trim(Tail(explained[Len(explained)]))

C26_Witness ==
    /\ Parsed
    /\ textContent[1].header.suffix = <<"1">>
    /\ Len(questionGroups[1].questions) = 2
    /\ questionGroups[1].questions[1].o = << <<"no">> >>
    /\ questionGroups[1].questions[1].a = <<"no">>

\* C27: the vocabulary parsed from a vocab block is read from its trimmed
\* non-empty lines, or from its pieces between commas when the lines give
\* at most one word and the block holds a comma; it has one entry per word
\* of a valid pair (a colon with a non-empty word before it and a
\* non-empty definition after it, one trailing comma removed), and the
\* definition of a word is that of the last valid pair with that word.
PairWord(pair) == Trim(SubSeq(pair, 1, IndexOf(pair, ":") - 1))

PairDefinition(pair) ==
    LET text == Trim(SubSeq(pair, IndexOf(pair, ":") + 1, Len(pair)))
    IN  IF text # <<>> /\ text[Len(text)] = "," THEN SubSeq(text, 1, Len(text) - 1)
        ELSE text

ValidPair(pair) ==
    /\ Includes(pair, ":")
    /\ PairWord(pair) # <<>>
    /\ PairDefinition(pair) # <<>>

\* the entries the claim expects from a sequence of pairs
ExpectedEntries(pairs) ==
    {[word |-> PairWord(pairs[i]), definition |-> PairDefinition(pairs[i])] :
        i \in {i \in 1..Len(pairs) :
                  /\ ValidPair(pairs[i])
                  /\ \A j \in (i + 1)..Len(pairs) :
                        ValidPair(pairs[j]) => PairWord(pairs[j]) # PairWord(pairs[i])}}

\* the body of the vocab block of the document
VocabularyBody == textContent[1].body

VocabularyLines == TrimmedNonEmpty(Split(VocabularyBody, "\n"))

CommaFallback ==
    /\ Cardinality(ExpectedEntries(VocabularyLines)) <= 1
    /\ Includes(VocabularyBody, ",")

C27_VocabularyParser ==
    (Parsed /\ VocabularyBody # <<>>) =>
        LET vocabulary == vocabularySections[1].vocabulary
            pairs == IF CommaFallback
                     THEN TrimmedNonEmpty(Split(VocabularyBody, ","))
                     ELSE VocabularyLines
        IN  /\ Range(vocabulary) = ExpectedEntries(pairs)
            /\ Len(vocabulary) = Cardinality(ExpectedEntries(pairs))

C27_Witness ==
    /\ Parsed
    /\ VocabularyBody # <<>>
    /\ CommaFallback
    /\ Len(VocabularyLines) = 2
    /\ Len(vocabularySections[1].vocabulary) = 2
    /\ \E i \in 1..2 :
          vocabularySections[1].vocabulary[i] =
              [word |-> <<"dog">>, definition |-> <<"big">>]

\* C28: whatever the array and the draws, shuffleArray leaves a
\* permutation of the array it was given (same length, every element as
\* many times), and every permutation of the array is the result of one
\* call for some draws.
Occurrences(seq, x) == Cardinality({i \in 1..Len(seq) : seq[i] = x})

IsPermutation(a, b) ==
    /\ Len(a) = Len(b)
    /\ \A x \in Range(a) \cup Range(b) : Occurrences(a, x) = Occurrences(b, x)

PermutationsOf(seq) ==
    {p \in [1..Len(seq) -> Range(seq)] : IsPermutation(p, seq)}

C28_ShuffleIsPermutation ==
    /\ IsPermutation(shuffled, shuffleInput)
    /\ \A p \in PermutationsOf(shuffled) :
          ENABLED (ShuffleArrayCall /\ shuffled' = p)

C28_Witness ==
    /\ shuffleInput = <<"a", "b", "c">>
    /\ shuffled = <<"c", "a", "b">>

CardsOfType(type) ==
    LET isType(card) == card.type = type
    IN  SelectSeq(rendered, isType)

C30_SectionsAligned ==
    rendered # <<>> =>
        /\ Len(CardsOfType("vocab")) = Len(BlocksOfType("vocab"))
        /\ Len(CardsOfType("cloze")) = Len(BlocksOfType("cloze"))
        /\ \A k \in 1..Len(BlocksOfType("vocab")) :
              LET block == textContent[BlocksOfType("vocab")[k]]
                  data == CardsOfType("vocab")[k].data
              IN  IF block.blank THEN data = <<>>
                  ELSE /\ data # <<>>
                       /\ Range(data[1].vocabulary) \subseteq Range(AllVocab(block.body))
                       /\ Len(data[1].vocabulary) =
                              Used(block.header.suffix, Len(AllVocab(block.body)))
        /\ \A k \in 1..Len(BlocksOfType("cloze")) :
              LET block == textContent[BlocksOfType("cloze")[k]]
                  data == CardsOfType("cloze")[k].data
              IN  IF block.blank THEN data = <<>>
                  ELSE /\ data # <<>>
                       /\ data[1].text = block.marked
                       /\ Len(data[1].words) =
                              Used(block.header.suffix, Len(block.marked))

\* C31: in a Checked session each score is at most the number of items of
\* its category (vocabulary words, selected blank words, questions of the
\* try), and the combined score is at most the combined total, also when
\* the cloze text marks a word twice and a limit selects one blank.
C31_ScoresWithinTotals ==
    Checked =>
        /\ vocabScore <= GetTotalVocabWords(vocabularySections)
        /\ clozeScore <= TotalBlanks(clozeSections)
        /\ score <= totalQuestions
        /\ TotalEarned(vocabScore, clozeScore, score)
              <= TotalPossible(vocabularySections, clozeSections, totalQuestions)

\* C32: in a connected session every cloze section has as many blank
\* inputs as selected blank words, and once every blank input holds
\* non-empty text checkAllClozeAnswered is true, also when the text marks a
\* word twice and a limit selects one blank.
InputsOfSection(sectionId) == {key \in DOMAIN clozeInputs : key[1] = sectionId}

AllBlanksFilled ==
    \A key \in DOMAIN clozeInputs :
        key \in DOMAIN clozeAnswers /\ Len(clozeAnswers[key]) > 0

C32_BlanksMatchWords ==
    connected =>
        /\ \A k \in 1..Len(clozeSections) :
              Cardinality(InputsOfSection(clozeSections[k].sectionId))
                  = Len(clozeSections[k].words)
        /\ AllBlanksFilled => CheckAllClozeAnswered(clozeSections, clozeAnswers)

\* C33: while a submission is in progress the try-again button is disabled
\* and resetQuiz cannot be reached; the step that ends the submission, on
\* success and on failure, clears the flag and enables the try-again
\* button; and every submission in progress ends at last.
C33_SubmittingEnds ==
    /\ [](autoSubmissionInProgress => (tryAgainDisabled /\ ~CanReset))
    /\ [][(autoSubmissionInProgress /\ ~autoSubmissionInProgress') =>
             (~tryAgainDisabled' /\ inFlight' = <<>>)]_vars
    /\ autoSubmissionInProgress ~> (~autoSubmissionInProgress /\ ~tryAgainDisabled)

C33_Witness ==
    /\ requests # <<>>
    /\ lastResponse.kind = "reject"
    /\ SubmissionStatus = "Failed"
    /\ ~tryAgainDisabled
    /\ inFlight = <<>>

\* C34: when a student information field is blank, a sendScore that is not
\* already in progress issues no request, leaves the in-progress flag
\* false and changes no score; and after such a refusal, once every field
\* is filled, sendScore issues a request.
AnyFieldBlank == \E f \in DOMAIN studentInputs : Trim(studentInputs[f]) = <<>>

Refused ==
    validationMessage.text = "Please fill out all student information fields."

C34_BlankFieldRefused ==
    (connected /\ Len(requests) < MaxRequests) =>
        /\ (AnyFieldBlank /\ ~autoSubmissionInProgress) =>
              /\ ENABLED (SendScoreCall /\ Refused')
              /\ ~ENABLED (/\ SendScoreCall
                           /\ \/ requests' # requests
                              \/ inFlight' # inFlight
                              \/ autoSubmissionInProgress'
                              \/ <<score, vocabScore, clozeScore>>'
                                    # <<score, vocabScore, clozeScore>>)
        /\ (Refused /\ ~AnyFieldBlank /\ submissionUrl # "") =>
              /\ ~autoSubmissionInProgress
              /\ ENABLED (SendScoreCall /\ Len(requests') = Len(requests) + 1)

C34_Witness ==
    /\ connected
    /\ Refused
    /\ ~AnyFieldBlank
    /\ submissionUrl # ""
    /\ requests = <<>>

\* C35: a request issued while the submission-url attribute is present is
\* sent to the value the attribute has at that moment, also after the page
\* changed the attribute of the connected element.
C35_AttributeIsEndpoint ==
    [][(Len(requests') = Len(requests) + 1 /\ submissionAttribute # <<>>) =>
          requests'[Len(requests')].url = submissionAttribute[1]]_vars

====
